---- MODULE Spec2Model ----
(***************************************************************************)
(* Model of the streaming RPC engine of controller-grpc/controller.go:     *)
(* the per-call event subscription (subscribeEvents, EventListener.Close), *)
(* and the handlers built on it.  One handler call is modelled at a time;  *)
(* the variable h names the handler, req its request.                       *)
(*                                                                         *)
(* The data package (data.EventListener, data.EventSubscriber, the         *)
(* repositories) is not part of the source at hand; its behaviour is       *)
(* modelled from the written specification (sections 3, 4.3, 4.4).         *)
(***************************************************************************)
EXTENDS Integers, Sequences, FiniteSets, TLC

VARIABLES
    log,        \* the store's events table: sequence of events, id = position
    listener,   \* Config.eventListener: "nil", "open" or "closed"
    subs,       \* the data.EventSubscribers opened by subscribeEvents, in order
    fwd,        \* the forwarder goroutine of each subscriber
    el,         \* the EventListener struct returned by subscribeEvents
    h,          \* the handler being run
    req,        \* its request
    pc,         \* its position
    currID,     \* its currID local
    items,      \* its in-memory list (scaleRequests / releases / apps)
    npt,        \* its nextPageToken (BeforeID, 0 or "" when nil)
    out,        \* responses accepted by the outbound stream, in order
    ret,        \* its return value once pc = "done"
    cancelled,  \* the client has cancelled: every later Send fails
    sendFailed, \* a Send of this handler has failed
    incoming,   \* StreamScales: signalling goroutines blocked on `incoming`
    timer,      \* StreamScales: the debounce timer is armed
    appsTable,  \* the store's apps, in page order
    deployment, \* the store's row of the deployment of this call
    scaleReq,   \* createScale: its scaleReq local
    timeout,    \* createScale: the time.After channel holds a value
    ctEvent,    \* CreateDeployment: the event being handled while createScale runs;
                \* StreamFormations: the last event received (its appID local)
    appReleaseIDs, \* StreamFormations: its releaseIDs map ("" = no entry)
    wl,         \* the fields of a WindowedListState object
    spawned,    \* StreamScales: sendResponse goroutines that have not yet
                \* taken the read lock
    sending,    \* StreamScales: sendResponse goroutines inside stream.Send
    dpc,        \* StreamScales: where its debounce goroutine is ("none"
                \* in the other handlers)
    pages,      \* history: the events of the pages that earlier StreamReleases
                \* calls of the same client returned
    mtx,        \* Config.eventListenerMtx: the caller that holds it, 0 = free
    callers,    \* the concurrent maybeStartEventListener calls
    pool,       \* the EventListener objects created so far; the last one is
                \* the one Config.eventListener points at
    closers,    \* the calls of EventListener.Close in progress
    errWrites,  \* history: the subscribers whose error was written to
                \* EventListener.Err, in order
    scaleCalls, \* history: the createScale calls made by CreateDeployment
    seen,       \* history: ids of the events received from sub.Events
    applied,    \* history: ids of the events applied or emitted in Phase L
    snap        \* history: what Phase S listed

vars == <<log, listener, subs, fwd, el, h, req, pc, currID, items, npt, out,
          ret, cancelled, sendFailed, incoming, timer, appsTable, deployment,
          scaleReq, timeout, ctEvent, appReleaseIDs, wl, spawned, sending,
          dpc, pages, mtx, callers, pool,
          closers, errWrites, scaleCalls, seen, applied, snap>>

fabric == <<log, listener, subs, fwd, el>>
call == <<h, req>>
extra == <<wl, spawned, sending, dpc, pages>>
senders == <<spawned, sending>>
startup == <<mtx, callers, pool>>
closing == <<closers, errWrites>>
locals == <<currID, items, npt>>
io == <<out, ret, cancelled, sendFailed>>
debounce == <<incoming, timer>>
db == <<appsTable, deployment>>
scale == <<scaleReq, timeout, ctEvent, scaleCalls>>
hist == <<seen, applied, snap>>

(***************************************************************************)
(* Bounds of the model.                                                    *)
(***************************************************************************)
MaxEvents == 3      \* events the store publishes before and during one handler call
MaxScaleEvents == 2 \* the same during a StreamScales call, whose debounced
                    \* responses multiply the interleavings
QueueCap == 2       \* capacity of a subscriber's bounded queue
MaxStored == 4      \* apps in the store before a StreamApps call
NumCallers == 3     \* concurrent maybeStartEventListener calls
NumClosers == 2     \* calls of Close on one subscription
MaxListeners == 3   \* EventListener objects created in one run

Apps == {"a1", "a2"}

Min(S) == CHOOSE x \in S : \A y \in S : x <= y
Max(S) == CHOOSE x \in S : \A y \in S : x >= y

Reverse(s) == [k \in 1..Len(s) |-> s[Len(s) + 1 - k]]

(***************************************************************************)
(* Events.  Data is flattened into the event: ok says whether the payload  *)
(* unmarshals, State/Label/Rel are the payload fields the handlers read.   *)
(***************************************************************************)
Ev(app, type, oid, op, ok, state, label, rel) ==
    [AppID |-> app, ObjectType |-> type, ObjectID |-> oid, Op |-> op,
     ok |-> ok, State |-> state, Label |-> label, Rel |-> rel]

NoEvent == [id |-> 0] @@ Ev("", "", "", "", FALSE, "", "", "")

WithID(t, n) == [id |-> n] @@ t

\* what the store can publish while a StreamReleases call runs
ReleasePayloads ==
    { Ev("a1", "release", "r1", "create", TRUE, "", "x", ""),
      Ev("a1", "release", "r2", "create", TRUE, "", "y", ""),
      Ev("a2", "release", "r3", "create", TRUE, "", "x", ""),
      Ev("a1", "release", "r1", "create", FALSE, "", "", "") }

\* what the store can publish while a StreamScales call runs
ScalePayloads ==
    { Ev("a1", "scale_request", "s1", "create", TRUE, "pending", "", "r1"),
      Ev("a1", "scale_request", "s1", "update", TRUE, "complete", "", "r1"),
      Ev("a2", "scale_request", "s2", "create", TRUE, "pending", "", "r3"),
      Ev("a1", "scale_request", "s1", "update", FALSE, "", "", "") }

\* what the scale worker and other clients can publish while a createScale
\* call runs: events of the inserted request s1 once it exists, and events of
\* another request of the same app
CreateScalePayloads ==
    { Ev("a1", "scale_request", "s2", "update", TRUE, "complete", "", "r1") }
    \cup (IF scaleReq.ID = "" THEN {}
          ELSE { Ev("a1", "scale_request", scaleReq.ID, "update", TRUE, st, "", "r1") :
                   st \in {"pending", "complete", "cancelled"} }
               \cup { Ev("a1", "scale_request", scaleReq.ID, "update", FALSE, "", "", "r1") })

\* what the store can publish while a StreamFormations call runs: scale
\* requests of app a1's releases and the move of a1 to release r2
FormationPayloads ==
    { Ev("a1", "scale_request", "s1", "create", TRUE, "pending", "", "r1"),
      Ev("a1", "scale_request", "s1", "update", TRUE, "complete", "", "r1"),
      Ev("a1", "scale_request", "s1", "update", TRUE, "cancelled", "", "r1"),
      Ev("a1", "app_release", "r2", "create", TRUE, "", "", ""),
      Ev("a1", "scale_request", "s2", "create", TRUE, "pending", "", "r2") }

Payloads ==
    CASE h = "StreamReleases" -> ReleasePayloads
      [] h = "StreamFormations" -> FormationPayloads
      [] h = "StreamScales" -> ScalePayloads
      [] h = "createScale" -> CreateScalePayloads
      [] OTHER -> {}

(***************************************************************************)
(* utils.ParseAppIDsFromNameFilters / ParseReleaseIDsFromNameFilters.  A   *)
(* name filter apps/A or apps/A/releases/R is the pair <<A, R>> (R = ""    *)
(* when absent).                                                            *)
(***************************************************************************)
ParseAppIDsFromNameFilters(nf) ==
    LET given(id) == id # ""
    IN  SelectSeq([i \in DOMAIN nf |-> nf[i][1]], given)

ParseReleaseIDsFromNameFilters(nf) ==
    LET given(id) == id # ""
    IN  SelectSeq([i \in DOMAIN nf |-> nf[i][2]], given)

Range(s) == {s[i] : i \in DOMAIN s}

\* protobuf.MatchLabelFilters with at most one OP_EQ filter: "" is no filter
MatchLabelFilters(label, filter) == filter = "" \/ label = filter

(***************************************************************************)
(* data.EventRepo.ListEvents(appIDs, objectTypes, objectID, beforeID,      *)
(* sinceID, count): the matching events, newest first, older than beforeID *)
(* when given (0 = nil), at most count of them when count > 0.             *)
(***************************************************************************)
ListEvents(appIDs, types, beforeID, count) ==
    LET match(e) == /\ (appIDs = <<>> \/ e.AppID \in Range(appIDs))
                    /\ e.ObjectType \in types
                    /\ (beforeID = 0 \/ e.id < beforeID)
        desc == Reverse(SelectSeq(log, match))
    IN  IF count > 0 /\ Len(desc) > count THEN SubSeq(desc, 1, count) ELSE desc

(***************************************************************************)
(* data.EventListener / data.EventSubscriber                               *)
(***************************************************************************)
\* EventSubscriber filter (spec section 3, first invariant)
Matches(s, e) ==
    /\ (s.appID = "" \/ s.appID = e.AppID)
    /\ e.ObjectType \in s.types
    /\ (s.objectID = "" \/ s.objectID = e.ObjectID)

\* EventSubscriber.Notify: queue the event, or close a slow subscriber with
\* its error cell set
Notify(s, e) ==
    IF s.closed \/ ~Matches(s, e) THEN s
    ELSE IF Len(s.q) < QueueCap THEN [s EXCEPT !.q = Append(@, e)]
    ELSE [s EXCEPT !.closed = TRUE, !.Err = "overflow", !.q = <<>>]

\* the store appends an event and the listener notifies every subscriber
Emit(t) ==
    LET e == WithID(t, Len(log) + 1) IN
    /\ log' = Append(log, e)
    /\ subs' = [i \in DOMAIN subs |-> Notify(subs[i], e)]

\* a change of a release or a scale request, made by another client or a worker
Publish ==
    /\ pc \notin {"done", "panic"}
    /\ Len(log) < (IF h = "StreamScales" THEN MaxScaleEvents ELSE MaxEvents)
    /\ \E t \in Payloads : Emit(t)
    /\ UNCHANGED <<listener, fwd, el, call, extra, appReleaseIDs, closing, startup, db, scale, pc, locals, io, debounce, hist>>

NoDeployment ==
    [ID |-> "", AppID |-> "", OldReleaseID |-> "", NewReleaseID |-> "",
     Status |-> "", Type |-> ""]

\* data.DeploymentRepo.Add: the row of a new deployment of app a1 from
\* release r1 to release r2, and its first event
AddDeployment(type) ==
    /\ deployment' = [ID |-> "d1", AppID |-> "a1", OldReleaseID |-> "r1",
                      NewReleaseID |-> "r2", Status |-> "pending", Type |-> type]
    /\ Emit(Ev("a1", "deployment", "d1", "create", TRUE, "pending", <<>>, ""))

\* The error field of a deployment event is a string, kept as the sequence of
\* its pieces so that a formatting directive in it can be told from plain
\* text: "% f" is the directive in "disk 100% full".
DeployErrors == { <<"deploy failed">>, <<"disk 100", "% f", "ull">> }

RECURSIVE Join(_)
\* the string the pieces spell
Join(pieces) ==
    IF pieces = <<>> THEN "" ELSE Head(pieces) \o Join(Tail(pieces))

\* ct.DeploymentEvent.Error
ErrorField(e) == Join(e.Label)

\* fmt.Sprintf with no operands: plain text is copied, a directive is
\* rendered as %!verb(MISSING)
Sprintf(pieces) ==
    Join([i \in DOMAIN pieces |->
            IF pieces[i] = "% f" THEN "%!f(MISSING)" ELSE pieces[i]])

\* the statuses the deployment worker can move a deployment to
NextStatus(st) ==
    CASE st = "pending" -> {"running"}
      [] st = "running" -> {"running", "complete", "failed"}
      [] OTHER -> {}

\* the deployment worker moves the deployment on and publishes the event; a
\* failed deployment's event carries the error
DeploymentProgress ==
    /\ pc \notin {"done", "panic"}
    /\ Len(log) < MaxEvents
    /\ deployment.ID # ""
    /\ \E st \in NextStatus(deployment.Status), ok \in BOOLEAN :
       \E err \in (IF st = "failed" THEN DeployErrors ELSE {<<>>}) :
         /\ ok \/ st = "running"
         /\ deployment' = [deployment EXCEPT !.Status = st]
         /\ Emit(Ev("a1", "deployment", deployment.ID, "update", ok, st, err, ""))
    /\ UNCHANGED <<listener, fwd, el, call, extra, appReleaseIDs, closing, startup, appsTable, scale, pc, locals, io,
                   debounce, hist>>

\* another client starts a deployment while StreamDeployments runs
DeploymentCreate ==
    /\ h = "StreamDeployments"
    /\ pc \notin {"done", "panic"}
    /\ Len(log) < MaxEvents
    /\ deployment.ID = ""
    /\ \E type \in {"code", "config"} : AddDeployment(type)
    /\ UNCHANGED <<listener, fwd, el, call, extra, appReleaseIDs, closing, startup, appsTable, scale, pc, locals, io,
                   debounce, hist>>

\* the row of app a in the apps table (0 when a has none)
AppRow(a) ==
    IF \E i \in DOMAIN appsTable : appsTable[i].ID = a
    THEN CHOOSE i \in DOMAIN appsTable : appsTable[i].ID = a
    ELSE 0

\* another client creates, updates or deletes an app, or an app gets a new
\* release: the apps table changes and the matching event is published
AppChange ==
    /\ h = "StreamApps"
    /\ pc \notin {"done", "panic"}
    /\ Len(log) < MaxEvents
    /\ \E a \in Apps :
         LET n == Len(log) + 1
             i == AppRow(a)
         IN  \/ /\ i = 0
                /\ appsTable' = Append(appsTable, [ID |-> a, Label |-> "x", ver |-> n])
                /\ Emit(Ev(a, "app", a, "create", TRUE, "", "x", ""))
             \/ /\ i # 0
                /\ \E l \in {"x", "y"}, ok \in BOOLEAN :
                     /\ l # appsTable[i].Label
                     /\ ok \/ a = "a1"
                     /\ appsTable' = [appsTable EXCEPT ![i].Label = l, ![i].ver = n]
                     /\ Emit(Ev(a, "app", a, "update", ok, "", l, ""))
             \/ /\ i # 0
                /\ a = "a1"
                /\ appsTable' = appsTable
                /\ Emit(Ev(a, "app_release", "r1", "create", TRUE, "", "", ""))
             \/ /\ i # 0
                /\ a = "a2"
                /\ appsTable' = SelectSeq(appsTable, LAMBDA r : r.ID # a)
                /\ Emit(Ev(a, "app_deletion", a, "create", TRUE, "", "", ""))
    /\ UNCHANGED <<listener, fwd, el, call, extra, appReleaseIDs, closing, startup, deployment, scale, pc, locals, io,
                   debounce, hist>>

\* the client goes away: from now on stream.Send returns an error
ClientCancel ==
    /\ pc \notin {"done", "panic"}
    /\ ~cancelled
    /\ cancelled' = TRUE
    /\ UNCHANGED <<fabric, call, extra, appReleaseIDs, closing, startup, db, scale, pc, locals, out, ret, sendFailed, debounce, hist>>

(***************************************************************************)
(* maybeStartEventListener, called by concurrent subscribeEvents calls     *)
(***************************************************************************)
Callers == 1..NumCallers

\* a caller outside maybeStartEventListener; got is the listener it was
\* returned (its number in pool), created whether it made it
IdleCaller == [pc |-> "idle", got |-> 0, created |-> FALSE, err |-> FALSE]

\* a lock that never waits
MtxFreeAlways(m) == TRUE
\* sync.Mutex.Lock returns only while no one holds the mutex
MtxFree(m) == m = 0

\* line 154
Lock(c) ==
    /\ callers[c].pc = "idle"
    /\ MtxFree(mtx)
    /\ mtx' = c
    /\ callers' = [callers EXCEPT ![c].pc = "check"]
    /\ UNCHANGED <<fabric, call, extra, appReleaseIDs, closing, pool, db, scale, pc, locals, io,
                   debounce, hist>>

\* lines 156-158
CheckListener(c) ==
    /\ callers[c].pc = "check"
    /\ callers' = [callers EXCEPT ![c] =
                     IF listener # "nil" /\ listener # "closed"
                     THEN [@ EXCEPT !.pc = "return", !.got = Len(pool)]
                     ELSE [@ EXCEPT !.pc = "create"]]
    /\ UNCHANGED <<fabric, call, extra, appReleaseIDs, closing, mtx, pool, db, scale, pc, locals,
                   io, debounce, hist>>

\* lines 159-160: NewEventListener, the assignment, and Listen, which opens
\* the change feed or fails and leaves the listener closed; prev is what
\* Config.eventListener pointed at when it was overwritten
CreateListener(c) ==
    /\ callers[c].pc = "create"
    /\ Len(pool) < MaxListeners
    /\ \E st \in {"open", "closed"} :
         /\ pool' = Append(pool, [state |-> st, prev |-> listener])
         /\ listener' = st
         /\ callers' = [callers EXCEPT ![c] =
                          [pc |-> "return", got |-> Len(pool) + 1,
                           created |-> TRUE, err |-> st = "closed"]]
    /\ UNCHANGED <<log, subs, fwd, el, call, extra, appReleaseIDs, closing, mtx, db, scale, pc,
                   locals, io, debounce, hist>>

\* line 155: the deferred Unlock, and the return
Unlock(c) ==
    /\ callers[c].pc = "return"
    /\ mtx' = 0
    /\ callers' = [callers EXCEPT ![c].pc = "done"]
    /\ UNCHANGED <<fabric, call, extra, appReleaseIDs, closing, pool, db, scale, pc, locals, io,
                   debounce, hist>>

\* the caller's handler is over and another subscribeEvents call starts
CallAgain(c) ==
    /\ callers[c].pc = "done"
    /\ callers' = [callers EXCEPT ![c] = IdleCaller]
    /\ UNCHANGED <<fabric, call, extra, appReleaseIDs, closing, mtx, pool, db, scale, pc, locals,
                   io, debounce, hist>>

\* the change feed of the current listener is lost: IsClosed() turns true
\* and the listener closes the subscribers it holds
ConnectionLost ==
    /\ listener = "open"
    /\ listener' = "closed"
    /\ pool' = IF pool = <<>> THEN pool
               ELSE [pool EXCEPT ![Len(pool)].state = "closed"]
    /\ subs' = [i \in DOMAIN subs |-> [subs[i] EXCEPT !.closed = TRUE, !.q = <<>>]]
    /\ UNCHANGED <<log, fwd, el, call, extra, appReleaseIDs, closing, mtx, callers, db,
                   scale, pc, locals, io, debounce, hist>>

(***************************************************************************)
(* subscribeEvents and EventListener.Close                                 *)
(***************************************************************************)
\* a nil error (code OK); err is the message of a non-nil one
Nil == [err |-> "", code |-> "OK", val |-> ""]
\* errors.New / fmt.Errorf: an error that carries no status code, which the
\* RPC layer reports as Unknown
PlainError(msg) == [err |-> msg, code |-> "Unknown", val |-> ""]

\* the arguments each handler passes to subscribeEvents
SubAppIDs ==
    CASE h = "StreamReleases" ->
           IF ParseReleaseIDsFromNameFilters(req.NameFilters) # <<>> THEN <<>>
           ELSE ParseAppIDsFromNameFilters(req.NameFilters)
      [] h \in {"createScale", "CreateDeployment"} -> <<req.Parent>>
      [] OTHER -> ParseAppIDsFromNameFilters(req.NameFilters)

SubTypes ==
    CASE h = "StreamReleases" -> {"release"}
      [] h = "StreamScales" -> {"scale_request"}
      [] h = "StreamApps" -> {"app", "app_deletion", "app_release"}
      [] h = "createScale" -> {"scale_request"}
      [] h = "StreamFormations" -> {"scale_request", "app_release"}
      [] h \in {"StreamDeployments", "CreateDeployment"} -> {"deployment"}
      [] OTHER -> {}

SubObjectID == IF h = "CreateDeployment" THEN deployment.ID ELSE ""

\* where the handler continues once subscribeEvents has returned
AfterSubscribe ==
    CASE h \in {"StreamDeployments", "CreateDeployment"} -> "loop"
      [] h = "createScale" -> "insert"
      [] h = "StreamFormations" -> "refresh"
      [] OTHER -> "list"

\* lines 195-197: no app id means one wildcard subscriber
subscribeAppIDs(appIDs) == IF Len(appIDs) = 0 THEN <<"">> ELSE appIDs

NewSubscriber(appID) ==
    [appID |-> appID, types |-> SubTypes, objectID |-> SubObjectID,
     q |-> <<>>, closed |-> FALSE, Err |-> ""]

\* lines 180-188: maybeStartEventListener, then the EventListener struct
subscribeEventsStart ==
    /\ pc = "subscribe"
    /\ el.state = "none"
    /\ listener' = "open"
    /\ el' = [el EXCEPT !.state = "opening"]
    /\ UNCHANGED <<log, subs, fwd, call, extra, appReleaseIDs, closing, startup, db, scale, pc, locals, io, debounce, hist>>

\* lines 199-215: one Subscribe and one forwarder per app id; after the last
\* one, line 216 records the subscribers and subscribeEvents returns
subscribeEventsOne ==
    /\ pc = "subscribe"
    /\ el.state = "opening"
    /\ IF listener = "closed"
       THEN \* lines 200-204: Subscribe returns an error, subscribeEvents
            \* returns (nil, err) and the handler returns the error
            /\ el' = [el EXCEPT !.state = "failed"]
            /\ pc' = "done"
            /\ ret' = PlainError("event listener closed")
            /\ UNCHANGED <<subs, fwd>>
       ELSE LET ids == subscribeAppIDs(SubAppIDs)
                i == Len(subs) + 1
            IN  /\ subs' = Append(subs, NewSubscriber(ids[i]))
                /\ fwd' = Append(fwd, [pc |-> "recv", ev |-> NoEvent])
                /\ UNCHANGED ret
                /\ IF i = Len(ids)
                   THEN /\ el' = [el EXCEPT !.state = "open", !.nsubs = i,
                                             !.since = Len(log)]
                        /\ pc' = AfterSubscribe
                   ELSE UNCHANGED <<el, pc>>
    /\ UNCHANGED <<log, listener, call, extra, appReleaseIDs, closing, startup, db,
                   scale, locals, out, cancelled, sendFailed, debounce, hist>>

\* lines 206-214, `ctEvent, ok := <-sub.Events`
ForwarderRecv(i) ==
    /\ fwd[i].pc = "recv"
    /\ IF subs[i].closed
       THEN /\ fwd' = [fwd EXCEPT ![i].pc = "exit"]
            /\ UNCHANGED subs
       ELSE /\ subs[i].q # <<>>
            /\ fwd' = [fwd EXCEPT ![i] = [pc |-> "send", ev |-> Head(subs[i].q)]]
            /\ subs' = [subs EXCEPT ![i].q = Tail(@)]
    /\ UNCHANGED <<log, listener, el, call, extra, appReleaseIDs, closing, startup, db, scale, pc, locals, io, debounce, hist>>

\* `eventListener.Events <- ctEvent` meets a receive of the handler: the
\* forwarders whose send is ready
Ready == {i \in DOMAIN fwd : fwd[i].pc = "send"}

Delivered(i) == [fwd EXCEPT ![i] = [pc |-> "recv", ev |-> NoEvent]]

\* lines 170-177
FirstErr(ss, n) ==
    LET bad == {i \in 1..n : ss[i].Err # ""}
    IN  IF bad = {} THEN "" ELSE ss[Min(bad)].Err

CloseSubs(ss, n) ==
    [i \in DOMAIN ss |-> IF i <= n THEN [ss[i] EXCEPT !.closed = TRUE, !.q = <<>>]
                         ELSE ss[i]]

CloseEl(e, ss) ==
    IF e.once \/ FirstErr(ss, e.nsubs) = "" THEN [e EXCEPT !.closeCalled = TRUE]
    ELSE [e EXCEPT !.Err = FirstErr(ss, e.nsubs), !.once = TRUE, !.closeCalled = TRUE]

\* a once-guard that lets every call through
errOnceRunsAlways(e) == TRUE
\* line 174: sync.Once.Do runs its function on the first call only
errOnceRuns(e) == ~e.once

Closers == 1..NumClosers

\* a call of Close starts on a subscription that subscribeEvents returned
CloseStart(c) ==
    /\ el.state = "open"
    /\ closers[c].pc = "idle"
    /\ closers' = [closers EXCEPT ![c] =
                     IF el.nsubs = 0 THEN [pc |-> "done", i |-> 0]
                     ELSE [pc |-> "close", i |-> 1]]
    /\ el' = [el EXCEPT !.closeCalled = TRUE]
    /\ UNCHANGED <<log, listener, subs, fwd, call, extra, appReleaseIDs, startup, errWrites,
                   db, scale, pc, locals, io, debounce, hist>>

\* lines 171-176, one iteration: sub.Close(), then the subscriber's error, if
\* any, goes through errOnce.  A closed subscriber's error no longer changes,
\* so the read is taken together with the Close.
CloseSub(c) ==
    /\ closers[c].pc = "close"
    /\ LET i == closers[c].i
           err == subs[i].Err
           runs == err # "" /\ errOnceRuns(el)
       IN  /\ subs' = [subs EXCEPT ![i] = [@ EXCEPT !.closed = TRUE, !.q = <<>>]]
           /\ el' = IF runs THEN [el EXCEPT !.Err = err, !.once = TRUE] ELSE el
           /\ errWrites' = IF runs THEN Append(errWrites, i) ELSE errWrites
           /\ closers' = [closers EXCEPT ![c] =
                            IF i = el.nsubs THEN [pc |-> "done", i |-> i]
                            ELSE [pc |-> "close", i |-> i + 1]]
    /\ UNCHANGED <<log, listener, fwd, call, extra, appReleaseIDs, startup, db, scale, pc,
                   locals, io, debounce, hist>>

\* stream.Send: the response reaches the client unless the client cancelled
Send(o, resp) == IF cancelled THEN o ELSE Append(o, resp)

\* !(req.StreamUpdates || req.StreamCreates)
Unary == ~(req.StreamUpdates \/ req.StreamCreates)

\* a handler that holds no subscription returns v
ReturnNoSub(v) ==
    /\ pc' = "done"
    /\ ret' = v
    /\ UNCHANGED <<subs, el>>

\* a return that leaves the subscription open
ReturnNoClose(v) ==
    /\ pc' = "done"
    /\ ret' = v
    /\ UNCHANGED <<subs, el>>

\* a handler returns v; its deferred sub.Close() runs after v was evaluated
Return(v) ==
    /\ pc' = "done"
    /\ ret' = v
    /\ subs' = CloseSubs(subs, el.nsubs)
    /\ el' = CloseEl(el, subs)

\* `return sub.Err` and utils.ConvertError(sub.Err, ...)
SubErr == IF el.Err = "" THEN Nil ELSE PlainError(el.Err)

(***************************************************************************)
(* In-memory lists of StreamScales and StreamReleases                      *)
(***************************************************************************)
\* utils.ConvertRelease / utils.ConvertScaleRequest: the message built from
\* an event payload; name is the resource name
ConvertRelease(e) ==
    [name |-> <<e.AppID, e.ObjectID, "">>, id |-> e.id, State |-> "", Label |-> e.Label]

ConvertScaleRequest(e) ==
    [name |-> <<e.AppID, e.Rel, e.ObjectID>>, id |-> e.id, State |-> e.State,
     Label |-> ""]

\* a prepend that keeps the older item of the same name
PrependKeepAll(list, item) == <<item>> \o list

\* lines 603-611 and 767-775: the new item first, then the others without
\* those of the same name
Prepend(list, item) ==
    <<item>> \o SelectSeq(list, LAMBDA sr : sr.name # item.name)

\* a guard that lets the newest listed event through once more
avoidOverlapStrict(id, cur) == id < cur

\* lines 656 and 836, "avoid overlap between list and stream"
avoidOverlap(id, cur) == id <= cur

(***************************************************************************)
(* StreamReleases                                                          *)
(***************************************************************************)
\* lines 676-687: the effective page size
ReleasesPageSize == IF req.PageSize > 0 THEN req.PageSize ELSE req.TokenSize

\* lines 728-755: "accept", "reject" or "error"
maybeAcceptRelease(e) ==
    LET releaseIDs == Range(ParseReleaseIDsFromNameFilters(req.NameFilters))
        appIDs == Range(ParseAppIDsFromNameFilters(req.NameFilters))
    IN  IF /\ releaseIDs # {}
           /\ e.ObjectID \notin releaseIDs
           /\ (appIDs = {} \/ e.AppID \notin appIDs)
        THEN "reject"
        ELSE IF ~e.ok THEN "error"
        ELSE IF ~MatchLabelFilters(e.Label, req.LabelFilter) THEN "reject"
        ELSE "accept"

\* lines 757-778
maybePrependRelease(list, e) ==
    IF maybeAcceptRelease(e) = "accept" THEN Prepend(list, ConvertRelease(e)) ELSE list

RECURSIVE PrependReleases(_, _, _)
\* lines 808-817: the listed events from the last (oldest) to the first
PrependReleases(list, evs, i) ==
    IF i = 0 THEN list
    ELSE PrependReleases(maybePrependRelease(list, evs[i]), evs, i - 1)

\* lines 789-793
ReleasesListed ==
    ListEvents(SubAppIDs, {"release"}, req.BeforeID,
               IF ReleasesPageSize > 0 THEN ReleasesPageSize + 1 ELSE 0)

\* line 801
ReleasesSurplus(list) ==
    (ReleasesPageSize = 0 \/ Len(list) = ReleasesPageSize + 1) /\ Len(list) > 0

\* lines 787-822: Phase S and the snapshot response
StreamReleasesList ==
    /\ h = "StreamReleases"
    /\ pc = "list"
    /\ \E listed \in {ReleasesListed} :
       \E list \in {IF ReleasesSurplus(listed)
                    THEN SubSeq(listed, 1, Len(listed) - 1) ELSE listed} :
       \E rels \in {PrependReleases(<<>>, list, Len(list))} :
       LET cur == IF list # <<>> THEN list[1].id ELSE req.BeforeID
           token == IF ReleasesSurplus(listed) THEN list[1].id ELSE 0
       IN  /\ snap' = [ids |-> {listed[i].id : i \in DOMAIN listed},
                       kept |-> {list[i].id : i \in DOMAIN list}]
           /\ IF ReleasesSurplus(listed) /\ list = <<>>
              THEN \* line 803: list[0] of an empty slice; the deferred
                   \* sub.Close() runs while the handler panics
                   /\ pc' = "panic"
                   /\ subs' = CloseSubs(subs, el.nsubs)
                   /\ el' = CloseEl(el, subs)
                   /\ UNCHANGED <<locals, io>>
              ELSE /\ currID' = cur
                   /\ items' = rels
                   /\ npt' = token
                   /\ out' = Send(out, [items |-> rels, npt |-> token,
                                        pageComplete |-> TRUE, ev |-> 0])
                   /\ sendFailed' = (sendFailed \/ cancelled)
                   /\ UNCHANGED cancelled
                   /\ IF Unary
                      THEN Return(Nil)
                      ELSE /\ pc' = "loop"
                           /\ UNCHANGED <<subs, el, ret>>
    /\ UNCHANGED <<log, listener, fwd, call, extra, appReleaseIDs, closing, startup, db, scale, debounce, seen, applied>>

\* lines 829-853: one iteration of the Phase L loop
StreamReleasesRecv ==
    /\ h = "StreamReleases"
    /\ pc = "loop"
    /\ IF el.eventsClosed
       THEN \* lines 831-833 and 857-858
            /\ Return(SubErr)
            /\ UNCHANGED <<fwd, locals, out, cancelled, sendFailed, hist>>
       ELSE \E i \in Ready :
              LET e == fwd[i].ev IN
              /\ fwd' = Delivered(i)
              /\ seen' = Append(seen, e.id)
              /\ IF avoidOverlap(e.id, currID)
                 THEN UNCHANGED <<currID, out, sendFailed, applied>>
                 ELSE /\ currID' = e.id
                      /\ IF maybeAcceptRelease(e) = "accept"
                         THEN /\ out' = Send(out, [items |-> <<ConvertRelease(e)>>,
                                                   npt |-> 0, pageComplete |-> FALSE,
                                                   ev |-> e.id])
                              /\ sendFailed' = (sendFailed \/ cancelled)
                              /\ applied' = Append(applied, e.id)
                         ELSE UNCHANGED <<out, sendFailed, applied>>
              /\ UNCHANGED <<subs, el, pc, ret, items, npt, cancelled, snap>>
    /\ UNCHANGED <<log, listener, call, extra, appReleaseIDs, closing, startup, db, scale, debounce>>

(***************************************************************************)
(* StreamScales                                                            *)
(***************************************************************************)
\* lines 597-614: a payload that does not unmarshal leaves the list alone
prependScaleRequest(list, e) ==
    IF e.ok THEN Prepend(list, ConvertScaleRequest(e)) ELSE list

RECURSIVE PrependScaleRequests(_, _, _)
\* lines 631-639
PrependScaleRequests(list, evs, i) ==
    IF i = 0 THEN list
    ELSE PrependScaleRequests(prependScaleRequest(list, evs[i]), evs, i - 1)

\* lines 623-648: Phase S, the snapshot response, and the first
\* sendResponseWithDelay() of the receive loop
StreamScalesList ==
    /\ h = "StreamScales"
    /\ pc = "list"
    /\ LET list == ListEvents(ParseAppIDsFromNameFilters(req.NameFilters),
                              {"scale_request"}, 0, 0)
           srs == PrependScaleRequests(<<>>, list, Len(list))
       IN  /\ snap' = [ids |-> {list[i].id : i \in DOMAIN list},
                       kept |-> {list[i].id : i \in DOMAIN list}]
           /\ currID' = IF list # <<>> THEN list[1].id ELSE 0
           /\ items' = srs
           /\ out' = Send(out, [items |-> srs, npt |-> 0, pageComplete |-> FALSE,
                                ev |-> 0])
           /\ sendFailed' = (sendFailed \/ cancelled)
    /\ incoming' = incoming + 1
    /\ pc' = "loop"
    /\ UNCHANGED <<fabric, call, extra, appReleaseIDs, closing, startup, db, scale, npt, ret, cancelled, timer, seen, applied>>

\* lines 650-665 and the sendResponseWithDelay() of the next iteration.
\* prependScaleRequest takes the write lock of scaleRequestsMtx (line 602):
\* while a sendResponse goroutine holds the read lock the handler waits
StreamScalesRecv ==
    /\ h = "StreamScales"
    /\ pc = "loop"
    /\ IF el.eventsClosed
       THEN \* lines 651-653 and 668-671
            /\ Return(SubErr)
            /\ UNCHANGED <<fwd, locals, incoming, hist, ctEvent>>
       ELSE \E i \in Ready :
              LET e == fwd[i].ev IN
              /\ fwd' = Delivered(i)
              /\ seen' = Append(seen, e.id)
              /\ IF avoidOverlap(e.id, currID)
                 THEN /\ incoming' = incoming + 1
                      /\ UNCHANGED <<currID, items, applied, pc, ctEvent>>
                 ELSE IF e.ok /\ sending > 0
                 THEN /\ currID' = e.id
                      /\ pc' = "lock"
                      /\ ctEvent' = e
                      /\ UNCHANGED <<items, applied, incoming>>
                 ELSE /\ currID' = e.id
                      /\ items' = prependScaleRequest(items, e)
                      /\ applied' = IF e.ok THEN Append(applied, e.id) ELSE applied
                      /\ incoming' = incoming + 1
                      /\ UNCHANGED <<pc, ctEvent>>
              /\ UNCHANGED <<subs, el, ret, npt, snap>>
    /\ UNCHANGED <<log, listener, call, extra, appReleaseIDs, closing, startup, db,
                   scaleReq, timeout, scaleCalls, out, cancelled, sendFailed, timer>>

\* lines 602-612: the readers have released scaleRequestsMtx, the handler
\* takes the write lock, prepends, and starts its next iteration (line 648)
StreamScalesLocked ==
    /\ h = "StreamScales"
    /\ pc = "lock"
    /\ sending = 0
    /\ items' = prependScaleRequest(items, ctEvent)
    /\ applied' = Append(applied, ctEvent.id)
    /\ incoming' = incoming + 1
    /\ pc' = "loop"
    /\ UNCHANGED <<fabric, call, extra, appReleaseIDs, closing, startup, db, scale,
                   currID, npt, io, timer, seen, snap>>

\* lines 575-576: the debounce goroutine takes a signal and resets the timer
DebounceIncoming ==
    /\ incoming > 0
    /\ incoming' = incoming - 1
    /\ timer' = TRUE
    /\ UNCHANGED <<fabric, call, extra, appReleaseIDs, closing, startup, db, scale, pc, locals, io, hist>>

\* lines 577-578 and 557-563: the timer fires and sendResponse runs
DebounceFire ==
    /\ timer
    /\ timer' = FALSE
    /\ out' = Send(out, [items |-> items, npt |-> 0, pageComplete |-> FALSE,
                         ev |-> 0])
    /\ sendFailed' = (sendFailed \/ cancelled)
    /\ UNCHANGED <<fabric, call, extra, appReleaseIDs, closing, startup, db, scale, pc, locals, ret, cancelled, incoming, hist>>

\* lines 577-578: the timer fires and the debounce goroutine starts a
\* sendResponse goroutine
DebounceGo ==
    /\ timer
    /\ timer' = FALSE
    /\ spawned' = spawned + 1
    /\ UNCHANGED <<fabric, call, wl, sending, dpc, pages, appReleaseIDs, closing, startup,
                   db, scale, pc, locals, io, incoming, hist>>

\* line 558: a sendResponse goroutine takes the read lock, which is granted
\* unless a writer is waiting for the lock, and enters stream.Send
sendResponseRLock ==
    /\ spawned > 0
    /\ pc # "lock"
    /\ spawned' = spawned - 1
    /\ sending' = sending + 1
    /\ UNCHANGED <<fabric, call, wl, dpc, pages, appReleaseIDs, closing, startup, db, scale,
                   pc, locals, io, debounce, hist>>

\* lines 559-562: stream.Send returns and the read lock is released
sendResponseSent ==
    /\ sending > 0
    /\ sending' = sending - 1
    /\ out' = Send(out, [items |-> items, npt |-> 0, pageComplete |-> FALSE,
                         ev |-> 0])
    /\ sendFailed' = (sendFailed \/ cancelled)
    /\ UNCHANGED <<fabric, call, wl, spawned, dpc, pages, appReleaseIDs, closing, startup,
                   db, scale, pc, locals, ret, cancelled, debounce, hist>>

(***************************************************************************)
(* StreamApps                                                              *)
(***************************************************************************)
\* data.AppRepo.ListPage: up to size rows after the row of app id `before`
\* ("" = from the start, size 0 = no limit), and the id the next page
\* continues after ("" when there is none)
ListPage(before, size) ==
    LET rest == SubSeq(appsTable, AppRow(before) + 1, Len(appsTable))
    IN  IF size = 0 \/ Len(rest) <= size
        THEN [rows |-> rest, next |-> ""]
        ELSE [rows |-> SubSeq(rest, 1, size), next |-> rest[size].ID]

\* utils.ConvertApp
ConvertApp(a) ==
    [name |-> <<a.ID, "", "">>, id |-> a.ver, State |-> "", Label |-> a.Label]

\* lines 300-317: the name and label filters of listApps
AppPasses(a) ==
    LET appIDs == ParseAppIDsFromNameFilters(req.NameFilters)
    IN  /\ (appIDs = <<>> \/ a.ID \in Range(appIDs))
        /\ MatchLabelFilters(a.Label, req.LabelFilter)

\* lines 270-280
AppsPageSize == IF req.PageSize > 0 THEN req.PageSize ELSE req.TokenSize

RECURSIVE listApps(_)
\* lines 269-346, for the page token whose BeforeID is `before`
listApps(before) ==
    LET page == ListPage(before, AppsPageSize)
        pageSize == IF AppsPageSize = 0 THEN Len(page.rows) ELSE AppsPageSize
        passing == SelectSeq(page.rows, AppPasses)
        kept == IF Len(passing) > pageSize THEN SubSeq(passing, 1, pageSize)
                ELSE passing
        apps == [k \in DOMAIN kept |-> ConvertApp(kept[k])]
    IN  IF Len(apps) < pageSize /\ page.next # ""
        THEN [apps |-> listApps(page.next).apps \o apps,
              npt |-> listApps(page.next).npt]
        ELSE [apps |-> apps, npt |-> page.next]

\* lines 384-391: refreshApps, sendResponse, and the unary return
StreamAppsList ==
    /\ h = "StreamApps"
    /\ pc = "list"
    /\ LET r == listApps(req.BeforeApp) IN
       /\ items' = r.apps
       /\ npt' = r.npt
       /\ snap' = [ids |-> {r.apps[k].id : k \in DOMAIN r.apps},
                   kept |-> {r.apps[k].id : k \in DOMAIN r.apps}]
       /\ out' = Send(out, [items |-> r.apps, npt |-> r.npt,
                            pageComplete |-> TRUE, ev |-> 0])
       /\ sendFailed' = (sendFailed \/ cancelled)
    /\ IF Unary
       THEN ReturnNoSub(Nil)
       ELSE /\ pc' = "loop"
            /\ UNCHANGED <<subs, el, ret>>
    /\ UNCHANGED <<log, listener, fwd, call, extra, appReleaseIDs, closing, startup, db, scale, currID, cancelled,
                   debounce, seen, applied>>

\* the operation test alone, without the label filters
shouldSendAnyLabel(e) ==
    \/ req.StreamCreates /\ e.Op = "create"
    \/ req.StreamUpdates /\ e.Op = "update"

\* lines 411-417
shouldSend(e) ==
    /\ \/ req.StreamCreates /\ e.Op = "create"
       \/ req.StreamUpdates /\ e.Op = "update"
    /\ MatchLabelFilters(e.Label, req.LabelFilter)

\* lines 397-434 and 438-442: one iteration of the Phase L loop
StreamAppsRecv ==
    /\ h = "StreamApps"
    /\ pc = "loop"
    /\ IF el.eventsClosed
       THEN /\ Return(SubErr)
            /\ UNCHANGED <<fwd, out, sendFailed, hist>>
       ELSE \E i \in Ready :
              LET e == fwd[i].ev IN
              /\ fwd' = Delivered(i)
              /\ seen' = Append(seen, e.id)
              /\ IF e.ObjectType = "app" /\ e.ok /\ shouldSend(e)
                 THEN /\ out' = Send(out, [items |-> <<[name |-> <<e.ObjectID, "", "">>,
                                                       id |-> e.id, State |-> "",
                                                       Label |-> e.Label]>>,
                                           npt |-> "", pageComplete |-> FALSE,
                                           ev |-> e.id])
                      /\ sendFailed' = (sendFailed \/ cancelled)
                      /\ applied' = Append(applied, e.id)
                 ELSE UNCHANGED <<out, sendFailed, applied>>
              /\ UNCHANGED <<subs, el, pc, ret, snap>>
    /\ UNCHANGED <<log, listener, call, extra, appReleaseIDs, closing, startup, db, scale, locals, cancelled, debounce>>

(***************************************************************************)
(* StreamDeployments                                                       *)
(***************************************************************************)
\* protobuf.NewReleaseTypeMatcher(req.TypeFilters).Match: "" is no filter
TypeMatch(type) == req.TypeFilter = "" \/ type = req.TypeFilter

\* utils.ConvertExpandedDeployment
ConvertExpandedDeployment(d, status, id) ==
    [name |-> <<d.AppID, "", d.ID>>, id |-> id, State |-> status, Label |-> d.Type]

\* lines 986-1024, over the one deployment row of the model
listDeployments ==
    LET appIDs == ParseAppIDsFromNameFilters(req.NameFilters)
    IN  IF /\ deployment.ID # ""
           /\ (appIDs = <<>> \/ deployment.AppID \in Range(appIDs))
           /\ TypeMatch(deployment.Type)
        THEN <<ConvertExpandedDeployment(deployment, deployment.Status, 0)>>
        ELSE <<>>

\* lines 1052-1060: refreshDeployments, sendResponse, and the unary return
StreamDeploymentsList ==
    /\ h = "StreamDeployments"
    /\ pc = "list"
    /\ items' = listDeployments
    /\ snap' = [ids |-> {Len(log)}, kept |-> {Len(log)}]
    /\ out' = Send(out, [items |-> listDeployments, npt |-> 0,
                         pageComplete |-> FALSE, ev |-> 0])
    /\ sendFailed' = (sendFailed \/ cancelled)
    /\ IF Unary
       THEN ReturnNoSub(Nil)
       ELSE /\ pc' = "subscribe"
            /\ UNCHANGED <<subs, el, ret>>
    /\ UNCHANGED <<log, listener, fwd, call, extra, appReleaseIDs, closing, startup, db, scale, currID, npt, cancelled,
                   debounce, seen, applied>>

\* lines 1075-1100 and 1102-1105: one iteration of the receive loop
StreamDeploymentsRecv ==
    /\ h = "StreamDeployments"
    /\ pc = "loop"
    /\ IF el.eventsClosed
       THEN /\ Return(SubErr)
            /\ UNCHANGED <<fwd, out, sendFailed, hist>>
       ELSE \E i \in Ready :
              LET e == fwd[i].ev IN
              /\ fwd' = Delivered(i)
              /\ seen' = Append(seen, e.id)
              /\ IF e.ok /\ e.ObjectID = deployment.ID /\ TypeMatch(deployment.Type)
                 THEN /\ out' = Send(out, [items |-> <<ConvertExpandedDeployment(
                                                         deployment, e.State, e.id)>>,
                                           npt |-> 0, pageComplete |-> FALSE,
                                           ev |-> e.id])
                      /\ sendFailed' = (sendFailed \/ cancelled)
                      /\ applied' = Append(applied, e.id)
                 ELSE UNCHANGED <<out, sendFailed, applied>>
              /\ UNCHANGED <<subs, el, pc, ret, snap>>
    /\ UNCHANGED <<log, listener, call, extra, appReleaseIDs, closing, startup, db, scale, locals, cancelled, debounce>>

(***************************************************************************)
(* createScale                                                             *)
(***************************************************************************)
\* lines 494-510: AddScaleRequest inserts the request in state pending (the
\* store gives it its id and publishes its first event) and the timer starts;
\* or AddScaleRequest fails and createScale returns its error
createScaleInsert ==
    /\ h = "createScale"
    /\ pc = "insert"
    /\ \/ /\ scaleReq' = [ID |-> "s1", State |-> "pending"]
          /\ Emit(Ev(req.Parent, "scale_request", "s1", "create", TRUE, "pending",
                     "", req.Release))
          /\ pc' = "wait"
          /\ UNCHANGED <<el, ret>>
       \/ /\ Return(PlainError("insert failed"))
          /\ UNCHANGED <<log, scaleReq>>
    /\ UNCHANGED <<listener, fwd, call, extra, appReleaseIDs, closing, startup, db, timeout, ctEvent, scaleCalls, locals,
                   out, cancelled, sendFailed, debounce, hist>>

\* DefaultScaleTimeout has passed since line 510
TimeoutFires ==
    /\ h = "createScale"
    /\ pc = "wait"
    /\ ~timeout
    /\ timeout' = TRUE
    /\ UNCHANGED <<fabric, call, extra, appReleaseIDs, closing, startup, db, scaleReq, ctEvent, scaleCalls, pc, locals, io,
                   debounce, hist>>

\* utils.ConvertScaleRequest(scaleReq), line 545
ReturnedScaleRequest(sr) == [err |-> "", code |-> "OK", val |-> sr.State]

\* lines 527-533: what an event of the inserted request does to the wait
scaleOutcome(state) ==
    CASE state = "cancelled" -> "fail"
      [] state = "complete" -> "break"
      [] OTHER -> "continue"

\* lines 514-534 and 541-545: the select takes an event
createScaleRecv ==
    /\ h = "createScale"
    /\ pc = "wait"
    /\ IF el.eventsClosed
       THEN /\ Return(IF el.Err # "" THEN SubErr ELSE ReturnedScaleRequest(scaleReq))
            /\ UNCHANGED <<fwd, hist>>
       ELSE \E i \in Ready :
              LET e == fwd[i].ev
                  mine == e.ok /\ e.ObjectID = scaleReq.ID
                  o == IF mine THEN scaleOutcome(e.State) ELSE "continue"
              IN  /\ fwd' = Delivered(i)
                  /\ seen' = Append(seen, e.id)
                  /\ applied' = IF mine THEN Append(applied, e.id) ELSE applied
                  /\ UNCHANGED snap
                  /\ CASE o = "fail" -> Return(PlainError("scale request cancelled"))
                       [] o = "break" ->
                            Return(IF el.Err # "" THEN SubErr
                                   ELSE ReturnedScaleRequest(scaleReq))
                       [] OTHER -> UNCHANGED <<subs, el, pc, ret>>
    /\ UNCHANGED <<log, listener, call, extra, appReleaseIDs, closing, startup, db, scale, locals, out, cancelled,
                   sendFailed, debounce>>

\* lines 535-537: the select takes the timeout
createScaleTimeout ==
    /\ h = "createScale"
    /\ pc = "wait"
    /\ timeout
    /\ Return(PlainError("timed out waiting for scale to complete"))
    /\ UNCHANGED <<log, listener, fwd, call, extra, appReleaseIDs, closing, startup, db, scale, locals, out, cancelled,
                   sendFailed, debounce, hist>>

(***************************************************************************)
(* CreateDeployment                                                        *)
(***************************************************************************)
\* lines 1125-1130
CreateDeploymentAdd ==
    /\ h = "CreateDeployment"
    /\ pc = "add"
    /\ \/ /\ AddDeployment("code")
          /\ pc' = "subscribe"
          /\ UNCHANGED <<el, ret>>
       \/ /\ ReturnNoSub(PlainError("add failed"))
          /\ UNCHANGED <<log, deployment>>
    /\ UNCHANGED <<listener, fwd, call, extra, appReleaseIDs, closing, startup, appsTable, scale, locals, out, cancelled,
                   sendFailed, debounce, hist>>

\* a scale on every deployment event
shouldScaleAlways(status, sr) == sr

\* lines 1162-1163: whether the release is scaled now
shouldScale(status, sr) == status = "complete" /\ sr

\* line 1165: the parent of the scale request
ScaleParent(d) == <<d.AppID, d.NewReleaseID>>

\* lines 1172-1190: the delta for event e with the deployment row d, then the
\* return on failed, the break on complete, or the next iteration
CreateDeploymentEmit(e, d) ==
    /\ out' = Send(out, [items |-> <<[name |-> <<d.AppID, "", d.ID>>, id |-> e.id,
                                      State |-> d.Status, Label |-> ErrorField(e)]>>,
                         npt |-> 0, pageComplete |-> FALSE, ev |-> e.id])
    /\ sendFailed' = (sendFailed \/ cancelled)
    /\ applied' = Append(applied, e.id)
    /\ CASE d.Status = "failed" -> Return(PlainError(Sprintf(e.Label)))
         [] d.Status = "complete" -> Return(SubErr)
         [] OTHER -> /\ pc' = "loop"
                     /\ UNCHANGED <<subs, el, ret>>

\* lines 1141-1170: receive an event, read the deployment row, and either
\* enter createScale or go on to the delta
CreateDeploymentRecv ==
    /\ h = "CreateDeployment"
    /\ pc = "loop"
    /\ IF el.eventsClosed
       THEN /\ Return(SubErr)
            /\ UNCHANGED <<fwd, out, sendFailed, hist, ctEvent, scaleCalls>>
       ELSE \E i \in Ready, getOK \in BOOLEAN :
              LET e == fwd[i].ev
                  d == deployment
              IN  /\ fwd' = Delivered(i)
                  /\ seen' = Append(seen, e.id)
                  /\ UNCHANGED snap
                  /\ IF ~e.ok \/ ~getOK
                     THEN UNCHANGED <<subs, el, pc, ret, out, sendFailed, applied,
                                      ctEvent, scaleCalls>>
                     ELSE IF shouldScale(d.Status, req.ScaleRequest)
                     THEN /\ pc' = "scale"
                          /\ ctEvent' = e
                          /\ scaleCalls' = Append(scaleCalls,
                                                  [parent |-> ScaleParent(d),
                                                   returned |-> FALSE, err |-> ""])
                          /\ UNCHANGED <<subs, el, ret, out, sendFailed, applied>>
                     ELSE /\ CreateDeploymentEmit(e, d)
                          /\ UNCHANGED <<ctEvent, scaleCalls>>
    /\ UNCHANGED <<log, listener, call, extra, appReleaseIDs, closing, startup, db, scaleReq, timeout, locals, cancelled,
                   debounce>>

\* what a createScale call can return: the request, or one of its errors
createScaleResults ==
    {"", "insert failed", "scale request cancelled",
     "timed out waiting for scale to complete"}

\* lines 1164-1190: createScale returns (its result is dropped), then the
\* delta and the break
CreateDeploymentScaled ==
    /\ h = "CreateDeployment"
    /\ pc = "scale"
    /\ \E r \in createScaleResults :
         scaleCalls' = [scaleCalls EXCEPT ![Len(scaleCalls)].returned = TRUE,
                                          ![Len(scaleCalls)].err = r]
    /\ ctEvent' = NoEvent
    /\ CreateDeploymentEmit(ctEvent, deployment)
    /\ UNCHANGED <<log, listener, fwd, call, extra, appReleaseIDs, closing, startup, db, scaleReq, timeout, locals,
                   cancelled, debounce, seen, snap>>

(***************************************************************************)
(* StreamFormations                                                        *)
(***************************************************************************)
\* the release each app runs before the events the model follows
InitialRelease(a) == IF a = "a1" THEN "r1" ELSE "r3"

\* data.AppRepo.GetRelease: the current release of app a
GetRelease(a) ==
    LET moved(e) == e.ObjectType = "app_release" /\ e.AppID = a
        moves == SelectSeq(log, moved)
    IN  IF moves = <<>> THEN InitialRelease(a) ELSE moves[Len(moves)].ObjectID

\* the scale request that brought up a1's release r1 before the events the
\* model follows
InitialScaleRequest ==
    WithID(Ev("a1", "scale_request", "s0", "create", TRUE, "complete", "", "r1"), 0)

\* the rows of scale_requests for (app, release), oldest update first: the
\* store publishes an event with every insert and update
ScaleRequestRows(a, r) ==
    LET row(e) == e.ObjectType = "scale_request" /\ e.AppID = a /\ e.Rel = r
    IN  SelectSeq(<<InitialScaleRequest>> \o log, row)

\* lines 888-896: the state derived from the formation's pending scale request
FormationState(st) ==
    CASE st = "pending" -> "SCALE_PENDING"
      [] st = "cancelled" -> "SCALE_CANCELLED"
      [] OTHER -> "SCALE_COMPLETE"

\* lines 887-902: the formation message; name is its scaleRequest resource
\* name apps/A/releases/R/scale/S
Formation(a, r, rows) ==
    [name |-> <<a, r, rows[Len(rows)].ObjectID>>, id |-> 0,
     State |-> FormationState(rows[Len(rows)].State), Label |-> ""]

\* the formation the store returns for the empty app and release ids, if it
\* returns one
NoFormation == [name |-> <<"", "", "">>, id |-> 0, State |-> "SCALE_COMPLETE",
                Label |-> ""]

\* line 903: formations[appID] = formation
PutFormation(fs, f) ==
    IF \E i \in DOMAIN fs : fs[i].name[1] = f.name[1]
    THEN [i \in DOMAIN fs |-> IF fs[i].name[1] = f.name[1] THEN f ELSE fs[i]]
    ELSE Append(fs, f)

\* lines 862-872: the current release of every app of the name filters
StreamFormationsPreload ==
    /\ h = "StreamFormations"
    /\ pc = "preload"
    /\ appReleaseIDs' =
         [a \in Apps |-> IF a \in Range(ParseAppIDsFromNameFilters(req.NameFilters))
                         THEN GetRelease(a) ELSE ""]
    /\ pc' = "subscribe"
    /\ UNCHANGED <<fabric, call, extra, startup, closing, db, scale, locals, io, debounce, hist>>

\* lines 938-942 (and 964-966 when refreshFormation fails): refreshFormation
\* for the app of the last event, "" before the first one, then sendResponse.
\* What the store does with the empty ids of the first refresh is open: it
\* fails, or it returns an empty formation.
StreamFormationsRefresh ==
    /\ h = "StreamFormations"
    /\ pc = "refresh"
    /\ LET appID == ctEvent.AppID
           releaseID == IF appID = "" THEN "" ELSE appReleaseIDs[appID]
           rows == ScaleRequestRows(appID, releaseID)
           sent(f) == /\ items' = PutFormation(items, f)
                      /\ out' = Send(out, [items |-> PutFormation(items, f),
                                           npt |-> 0, pageComplete |-> FALSE,
                                           ev |-> ctEvent.id, asOf |-> Len(log)])
                      /\ sendFailed' = (sendFailed \/ cancelled)
                      /\ pc' = "loop"
                      /\ UNCHANGED <<subs, el, ret>>
           failed(msg) == /\ Return(PlainError(msg))
                          /\ UNCHANGED <<items, out, sendFailed>>
       IN  IF appID = ""
           THEN \/ failed("Error fetching current app formation")
                \/ sent(NoFormation)
           ELSE IF rows = <<>>
                THEN failed("Error fetching scale request id")
                ELSE sent(Formation(appID, releaseID, rows))
    /\ UNCHANGED <<log, listener, fwd, call, extra, appReleaseIDs, closing, startup, db, scale, currID, npt,
                   cancelled, debounce, hist>>

\* lines 945-959 (and 946-949, 968-973 when sub.Events is closed)
StreamFormationsRecv ==
    /\ h = "StreamFormations"
    /\ pc = "loop"
    /\ IF el.eventsClosed
       THEN /\ Return(SubErr)
            /\ UNCHANGED <<fwd, ctEvent, appReleaseIDs, seen>>
       ELSE \E i \in Ready :
              LET e == fwd[i].ev IN
              /\ fwd' = Delivered(i)
              /\ seen' = Append(seen, e.id)
              /\ ctEvent' = e
              /\ appReleaseIDs' =
                   IF e.ObjectType = "app_release"
                   THEN [appReleaseIDs EXCEPT ![e.AppID] = e.ObjectID]
                   ELSE appReleaseIDs
              /\ pc' = "refresh"
              /\ UNCHANGED <<subs, el, ret>>
    /\ UNCHANGED <<log, listener, call, extra, startup, closing, db, scaleReq, timeout, scaleCalls,
                   locals, out, cancelled, sendFailed, debounce, applied, snap>>

(***************************************************************************)
(* Requests and specifications                                             *)
(***************************************************************************)
\* a request with no filter, no page size and no page token
BaseRequest ==
    [StreamCreates |-> TRUE, StreamUpdates |-> TRUE, PageSize |-> 0,
     TokenSize |-> 0, BeforeID |-> 0, BeforeApp |-> "", NameFilters |-> <<>>,
     LabelFilter |-> "", TypeFilter |-> "", Parent |-> "a1", Release |-> "r2",
     ScaleRequest |-> FALSE]

App1 == << <<"a1", "">> >>
App12 == << <<"a1", "">>, <<"a2", "">> >>

ReleasesRequests ==
    { BaseRequest,
      [BaseRequest EXCEPT !.PageSize = 1, !.NameFilters = App1, !.LabelFilter = "x"],
      [BaseRequest EXCEPT !.PageSize = 2, !.NameFilters = App12],
      [BaseRequest EXCEPT !.PageSize = 2, !.BeforeID = 3,
                          !.NameFilters = << <<"a1", "r1">> >>],
      [BaseRequest EXCEPT !.PageSize = 1, !.StreamCreates = FALSE,
                          !.StreamUpdates = FALSE] }

ScalesRequests ==
    { [BaseRequest EXCEPT !.NameFilters = App1],
      [BaseRequest EXCEPT !.NameFilters = App12] }

\* name filters of two releases of the same app: the app id is parsed twice
RepeatedAppRequests ==
    { [BaseRequest EXCEPT !.NameFilters = << <<"a1", "r1">>, <<"a1", "r2">> >>] }

AppsRequests ==
    { BaseRequest,
      [BaseRequest EXCEPT !.LabelFilter = "x"],
      [BaseRequest EXCEPT !.StreamUpdates = FALSE, !.LabelFilter = "x"],
      [BaseRequest EXCEPT !.StreamCreates = FALSE, !.NameFilters = App1],
      [BaseRequest EXCEPT !.PageSize = 1, !.NameFilters = App12],
      [BaseRequest EXCEPT !.PageSize = 1, !.StreamCreates = FALSE,
                          !.StreamUpdates = FALSE] }

DeploymentsRequests ==
    { BaseRequest,
      [BaseRequest EXCEPT !.NameFilters = App12, !.TypeFilter = "code"],
      [BaseRequest EXCEPT !.StreamCreates = FALSE, !.StreamUpdates = FALSE] }

CreateScaleRequests == { BaseRequest }

CreateDeploymentRequests ==
    { BaseRequest, [BaseRequest EXCEPT !.ScaleRequest = TRUE] }

(***************************************************************************)
(* WindowedListState (dashboardv2/src/WindowedListState.ts)                *)
(***************************************************************************)
MaxLength == 4     \* items of the windowed list
MaxHeight == 2     \* height of an item
MaxViewport == 3   \* height of the viewport
MaxScrollTop == 6  \* scroll offsets 0..MaxScrollTop

\* lines 14-26: the constructor
NoWindow ==
    [viewportHeight |-> 0, length |-> 0, defaultHeight |-> 0,
     visibleIndexTop |-> 0, visibleLength |-> 0, paddingTop |-> 0,
     paddingBottom |-> 0, scrollTop |-> 0, heights |-> <<>>]

\* lines 196-202: heights is the map index => height, heights[i + 1] the
\* entry of index i and 0 a missing one
getItemHeight(w, index) ==
    IF index > w.length - 1 THEN 0
    ELSE IF index >= 0 /\ index < Len(w.heights) /\ w.heights[index + 1] # 0
         THEN w.heights[index + 1]
         ELSE w.defaultHeight

RECURSIVE getItemRangeHeight(_, _, _)
\* lines 204-210
getItemRangeHeight(w, startIndex, endIndex) ==
    IF startIndex > endIndex THEN 0
    ELSE getItemHeight(w, startIndex) + getItemRangeHeight(w, startIndex + 1, endIndex)

RECURSIVE TopFromScratch(_, _, _, _)
\* lines 35-43: <<visibleIndexTop, paddingTop>> after the loop from index i
TopFromScratch(w, i, visibleIndexTop, paddingTop) ==
    IF i < w.length /\ paddingTop + getItemHeight(w, i) < w.scrollTop
    THEN TopFromScratch(w, i + 1, visibleIndexTop + 1,
                        paddingTop + getItemHeight(w, i))
    ELSE <<visibleIndexTop, paddingTop>>

RECURSIVE VisibleLength(_, _, _, _)
\* lines 48-57, 112-121: visibleLength after the loop from index i
VisibleLength(w, i, visibleHeight, visibleLength) ==
    IF i < w.length /\ visibleHeight < w.viewportHeight
    THEN VisibleLength(w, i + 1, visibleHeight + getItemHeight(w, i),
                       visibleLength + 1)
    ELSE visibleLength

\* lines 28-65
calculateVisibleIndices(w) ==
    LET top == IF w.scrollTop = 0 THEN <<0, 0>> ELSE TopFromScratch(w, 0, 0, 0)
        len == VisibleLength(w, top[1], 0, 0)
    IN  [w EXCEPT !.visibleIndexTop = top[1],
                  !.paddingTop = top[2],
                  !.visibleLength = len,
                  !.paddingBottom = getItemRangeHeight(w, top[1] + len, w.length - 1)]

RECURSIVE ScrolledUp(_, _, _, _, _)
\* lines 82-92: <<visibleIndexTop, paddingTop>> after the loop from index i
ScrolledUp(w, i, visibleIndexTop, paddingTop, scrollTop) ==
    IF i >= 0 /\ paddingTop > scrollTop
    THEN ScrolledUp(w, i - 1, visibleIndexTop - 1,
                    paddingTop - getItemHeight(w, i), scrollTop)
    ELSE <<visibleIndexTop, paddingTop>>

RECURSIVE ScrolledDown(_, _, _, _, _)
\* lines 97-107: <<visibleIndexTop, paddingTop>> after the loop from index i
ScrolledDown(w, i, visibleIndexTop, paddingTop, scrollTopDelta) ==
    IF i < w.length /\ paddingTop + getItemHeight(w, i) < scrollTopDelta
    THEN ScrolledDown(w, i + 1, visibleIndexTop + 1,
                      paddingTop + getItemHeight(w, i), scrollTopDelta)
    ELSE <<visibleIndexTop, paddingTop>>

\* lines 68-140
updateScrollPosition(w, scrollTop) ==
    LET scrollTopDelta == scrollTop - w.scrollTop
        prevVisibleIndexBottom == w.visibleIndexTop + w.visibleLength - 1
        top == IF scrollTopDelta < 0
               THEN ScrolledUp(w, w.visibleIndexTop - 1, w.visibleIndexTop,
                               w.paddingTop, scrollTop)
               ELSE ScrolledDown(w, w.visibleIndexTop, w.visibleIndexTop,
                                 w.paddingTop, scrollTopDelta)
        len == VisibleLength(w, top[1], 0, 0)
        visibleIndexBottom == top[1] + len - 1
        moved == [w EXCEPT !.scrollTop = scrollTop,
                           !.visibleIndexTop = top[1],
                           !.paddingTop = top[2],
                           !.visibleLength = len]
    IN  IF scrollTopDelta = 0 THEN w
        ELSE IF top[1] = w.visibleIndexTop THEN moved
        ELSE IF top[1] < w.visibleIndexTop
        THEN [moved EXCEPT !.paddingBottom = w.paddingBottom
                 + getItemRangeHeight(w, visibleIndexBottom + 1, prevVisibleIndexBottom)]
        ELSE [moved EXCEPT !.paddingBottom = w.paddingBottom
                 - getItemRangeHeight(w, prevVisibleIndexBottom + 1, visibleIndexBottom)]

\* line 145: heights.set(index, height)
SetHeight(hts, index, height) ==
    [i \in 1..Max({Len(hts), index + 1}) |->
        IF i = index + 1 THEN height ELSE IF i <= Len(hts) THEN hts[i] ELSE 0]

RECURSIVE PushedIntoView(_)
\* lines 150-155: the item has pushed one or more items into view
PushedIntoView(w) ==
    IF w.paddingTop > w.scrollTop
    THEN PushedIntoView(
             [w EXCEPT !.visibleIndexTop = @ - 1,
                       !.visibleLength = @ + 1,
                       !.paddingTop = @ - getItemHeight(w, w.visibleIndexTop - 1)])
    ELSE w

\* lines 143-194
updateHeightAtIndex(w, index, height) ==
    LET prevHeight == getItemHeight(w, index)
        set == [w EXCEPT !.heights = SetHeight(w.heights, index, height)]
        prevVisibleIndexBottom == w.visibleIndexTop + w.visibleLength - 1
        len == VisibleLength(set, w.visibleIndexTop, 0, 0)
        visibleIndexBottom == w.visibleIndexTop + len - 1
        resized == [set EXCEPT !.visibleLength = len]
    IN  IF index < w.visibleIndexTop
        THEN PushedIntoView([set EXCEPT !.paddingTop = @ - prevHeight + height])
        ELSE IF index > prevVisibleIndexBottom
        THEN [set EXCEPT !.paddingBottom = @ - prevHeight + height]
        ELSE IF visibleIndexBottom = prevVisibleIndexBottom THEN resized
        ELSE IF visibleIndexBottom > prevVisibleIndexBottom
        THEN [resized EXCEPT !.paddingBottom = @
                 - getItemRangeHeight(set, prevVisibleIndexBottom + 1, visibleIndexBottom)]
        ELSE [resized EXCEPT !.paddingBottom = @
                 + getItemRangeHeight(set, visibleIndexBottom + 1, prevVisibleIndexBottom)]

\* a new object whose length, viewportHeight, defaultHeight and heights have
\* been set and whose window calculateVisibleIndices has computed
NewWindows ==
    { calculateVisibleIndices(
          [NoWindow EXCEPT !.length = n, !.viewportHeight = v,
                           !.defaultHeight = 1, !.heights = hts]) :
        n \in 1..MaxLength, v \in 1..MaxViewport,
        hts \in UNION {[1..k -> 0..MaxHeight] : k \in 0..MaxLength} }

\* where a handler starts: StreamApps subscribes only when it streams,
\* StreamDeployments after its snapshot, CreateDeployment after the insert
StartPC(hs, r) ==
    CASE hs = "StreamApps" /\ ~(r.StreamUpdates \/ r.StreamCreates) -> "list"
      [] hs = "StreamDeployments" -> "list"
      [] hs = "CreateDeployment" -> "add"
      [] hs = "StreamFormations" -> "preload"
      [] OTHER -> "subscribe"

\* the state when a call of handler hs arrives with a request of reqs and
\* the apps table is one of tables
InitCallWith(hs, reqs, tables) ==
    /\ log = <<>>
    /\ listener = "nil"
    /\ subs = <<>>
    /\ fwd = <<>>
    /\ el = [state |-> "none", nsubs |-> 0, Err |-> "", once |-> FALSE,
             closeCalled |-> FALSE, eventsClosed |-> FALSE, since |-> 0]
    /\ h = hs
    /\ req \in reqs
    /\ pc = StartPC(hs, req)
    /\ currID = 0
    /\ items = <<>>
    /\ npt = (IF hs = "StreamApps" THEN "" ELSE 0)
    /\ out = <<>>
    /\ ret = Nil
    /\ cancelled = FALSE
    /\ sendFailed = FALSE
    /\ incoming = 0
    /\ timer = FALSE
    /\ appsTable \in tables
    /\ deployment = NoDeployment
    /\ scaleReq = [ID |-> "", State |-> ""]
    /\ timeout = FALSE
    /\ ctEvent = NoEvent
    /\ appReleaseIDs = [a \in Apps |-> ""]
    /\ wl \in (IF hs = "WindowedListState" THEN NewWindows ELSE {NoWindow})
    /\ spawned = 0
    /\ sending = 0
    /\ dpc = (IF hs = "StreamScales" THEN "select" ELSE "none")
    /\ pages = <<>>
    /\ mtx = 0
    /\ callers = [c \in Callers |-> IdleCaller]
    /\ pool = <<>>
    /\ closers = [c \in Closers |-> [pc |-> "idle", i |-> 0]]
    /\ errWrites = <<>>
    /\ scaleCalls = <<>>
    /\ seen = <<>>
    /\ applied = <<>>
    /\ snap = [ids |-> {}, kept |-> {}]

InitCall(hs, reqs) == InitCallWith(hs, reqs, {<<>>})

Fabric ==
    \/ Publish
    \/ ClientCancel
    \/ subscribeEventsStart
    \/ subscribeEventsOne
    \/ \E i \in DOMAIN fwd : ForwarderRecv(i)

InitReleases == InitCall("StreamReleases", ReleasesRequests)
NextReleases == Fabric \/ StreamReleasesList \/ StreamReleasesRecv
SpecReleases == InitReleases /\ [][NextReleases]_vars

InitScales == InitCall("StreamScales", ScalesRequests \cup RepeatedAppRequests)
NextScales ==
    Fabric \/ StreamScalesList \/ StreamScalesRecv \/ DebounceIncoming \/ DebounceFire
SpecScales == InitScales /\ [][NextScales]_vars

InitApps == InitCall("StreamApps", AppsRequests)
NextApps ==
    \/ AppChange
    \/ ClientCancel
    \/ subscribeEventsStart
    \/ subscribeEventsOne
    \/ \E i \in DOMAIN fwd : ForwarderRecv(i)
    \/ StreamAppsList
    \/ StreamAppsRecv
SpecApps == InitApps /\ [][NextApps]_vars

\* apps tables that exist before the call: up to MaxStored apps, each with
\* label x or y, created before the events the model follows (ver 0)
AppNames == <<"a1", "a2", "a3", "a4", "a5", "a6">>
StoredTables ==
    { [i \in DOMAIN ls |-> [ID |-> AppNames[i], Label |-> ls[i], ver |-> 0]] :
        ls \in UNION { [1..n -> {"x", "y"}] : n \in 0..MaxStored } }

\* unary StreamApps requests that page through the apps with a filter
ListAppsRequests ==
    { [BaseRequest EXCEPT !.StreamCreates = FALSE, !.StreamUpdates = FALSE,
                          !.PageSize = 2, !.LabelFilter = "x"],
      [BaseRequest EXCEPT !.StreamCreates = FALSE, !.StreamUpdates = FALSE,
                          !.PageSize = 1, !.LabelFilter = "y"],
      [BaseRequest EXCEPT !.StreamCreates = FALSE, !.StreamUpdates = FALSE,
                          !.PageSize = 2,
                          !.NameFilters = << <<"a1", "">>, <<"a3", "">> >>],
      [BaseRequest EXCEPT !.StreamCreates = FALSE, !.StreamUpdates = FALSE,
                          !.TokenSize = 2, !.BeforeApp = "a1",
                          !.LabelFilter = "x"] }

InitListApps == InitCallWith("StreamApps", ListAppsRequests, StoredTables)
NextListApps == ClientCancel \/ StreamAppsList
SpecListApps == InitListApps /\ [][NextListApps]_vars

InitListener == InitCall("subscribeEvents", {BaseRequest})
NextListener ==
    \/ \E c \in Callers :
         Lock(c) \/ CheckListener(c) \/ CreateListener(c) \/ Unlock(c) \/ CallAgain(c)
    \/ ConnectionLost
SpecListener == InitListener /\ [][NextListener]_vars

\* a subscription of two subscribers that receive the same events
CloseRequests ==
    { [BaseRequest EXCEPT !.NameFilters = << <<"a1", "">>, <<"a1", "">> >>] }

\* Close called on the subscription of a StreamReleases call, once or more,
\* while the store publishes and the forwarders run
InitClose == InitCall("StreamReleases", CloseRequests)
NextClose ==
    \/ Publish
    \/ subscribeEventsStart
    \/ subscribeEventsOne
    \/ \E i \in DOMAIN fwd : ForwarderRecv(i)
    \/ \E c \in Closers : CloseStart(c) \/ CloseSub(c)
SpecClose == InitClose /\ [][NextClose]_vars

FormationsRequests == { [BaseRequest EXCEPT !.NameFilters = App1] }

InitFormations == InitCall("StreamFormations", FormationsRequests)
NextFormations ==
    Fabric \/ StreamFormationsPreload \/ StreamFormationsRefresh \/ StreamFormationsRecv
SpecFormations == InitFormations /\ [][NextFormations]_vars

InitDeployments == InitCall("StreamDeployments", DeploymentsRequests)
NextDeployments ==
    \/ DeploymentCreate
    \/ DeploymentProgress
    \/ ClientCancel
    \/ subscribeEventsStart
    \/ subscribeEventsOne
    \/ \E i \in DOMAIN fwd : ForwarderRecv(i)
    \/ StreamDeploymentsList
    \/ StreamDeploymentsRecv
SpecDeployments == InitDeployments /\ [][NextDeployments]_vars

InitCreateScale == InitCall("createScale", CreateScaleRequests)
NextCreateScale ==
    \/ Publish
    \/ subscribeEventsStart
    \/ subscribeEventsOne
    \/ \E i \in DOMAIN fwd : ForwarderRecv(i)
    \/ createScaleInsert
    \/ TimeoutFires
    \/ createScaleRecv
    \/ createScaleTimeout
SpecCreateScale == InitCreateScale /\ [][NextCreateScale]_vars

InitCreateDeployment == InitCall("CreateDeployment", CreateDeploymentRequests)
NextCreateDeployment ==
    \/ DeploymentProgress
    \/ ClientCancel
    \/ subscribeEventsStart
    \/ subscribeEventsOne
    \/ \E i \in DOMAIN fwd : ForwarderRecv(i)
    \/ CreateDeploymentAdd
    \/ CreateDeploymentRecv
    \/ CreateDeploymentScaled
SpecCreateDeployment == InitCreateDeployment /\ [][NextCreateDeployment]_vars

(***************************************************************************)
(* Fairness: the Go scheduler runs every goroutine that can take a step,   *)
(* and a timer that was started fires.  Nothing is assumed of the store,   *)
(* the workers or the client.                                              *)
(***************************************************************************)
Goroutines ==
    \/ subscribeEventsStart
    \/ subscribeEventsOne
    \/ \E i \in DOMAIN fwd : ForwarderRecv(i)

FairReleases ==
    /\ SpecReleases
    /\ WF_vars(Goroutines)
    /\ WF_vars(StreamReleasesList)
    /\ WF_vars(StreamReleasesRecv)

FairDeployments ==
    /\ SpecDeployments
    /\ WF_vars(Goroutines)
    /\ WF_vars(StreamDeploymentsList)
    /\ WF_vars(StreamDeploymentsRecv)

FairCreateScale ==
    /\ SpecCreateScale
    /\ WF_vars(Goroutines)
    /\ WF_vars(createScaleInsert)
    /\ WF_vars(TimeoutFires)
    /\ WF_vars(createScaleRecv)
    /\ SF_vars(createScaleTimeout)

\* StreamScales and StreamReleases together
InitLists == InitReleases \/ InitCall("StreamScales", ScalesRequests)
NextLists ==
    \/ Fabric
    \/ StreamReleasesList
    \/ StreamReleasesRecv
    \/ StreamScalesList
    \/ StreamScalesRecv
    \/ DebounceIncoming
    \/ DebounceFire
SpecLists == InitLists /\ [][NextLists]_vars

\* StreamScales with stream.Send taking time: the timer starts sendResponse
\* goroutines instead of the send happening at once
InitSends == InitCall("StreamScales", {[BaseRequest EXCEPT !.NameFilters = App1]})
NextSends ==
    \/ Fabric
    \/ StreamScalesList
    \/ StreamScalesRecv
    \/ StreamScalesLocked
    \/ DebounceIncoming
    \/ DebounceGo
    \/ sendResponseRLock
    \/ sendResponseSent
SpecSends == InitSends /\ [][NextSends]_vars

\* unary StreamReleases requests with a page size
PagingRequests ==
    { [BaseRequest EXCEPT !.StreamCreates = FALSE, !.StreamUpdates = FALSE,
                          !.PageSize = n, !.NameFilters = f] :
        n \in 1..2, f \in {<<>>, App1} }

\* lines 676-687: the client calls StreamReleases again with the page token
\* the last response carried; the new call starts on a new stream
NextPage ==
    /\ h = "StreamReleases"
    /\ pc = "done"
    /\ ret.code = "OK"
    /\ npt # 0
    /\ req' = [req EXCEPT !.BeforeID = npt]
    /\ pages' = Append(pages, snap.kept)
    /\ pc' = StartPC(h, req)
    /\ subs' = <<>>
    /\ fwd' = <<>>
    /\ el' = [state |-> "none", nsubs |-> 0, Err |-> "", once |-> FALSE,
              closeCalled |-> FALSE, eventsClosed |-> FALSE, since |-> 0]
    /\ currID' = 0
    /\ items' = <<>>
    /\ npt' = 0
    /\ out' = <<>>
    /\ ret' = Nil
    /\ snap' = [ids |-> {}, kept |-> {}]
    /\ UNCHANGED <<log, listener, h, wl, senders, dpc, appReleaseIDs, closing, startup,
                   db, scale, cancelled, sendFailed, debounce, seen, applied>>

\* a client pages through the release events with unary calls
InitPaging == InitCall("StreamReleases", PagingRequests)
NextPaging ==
    \/ Publish
    \/ subscribeEventsStart
    \/ subscribeEventsOne
    \/ (\E i \in DOMAIN fwd : ForwarderRecv(i))
    \/ StreamReleasesList
    \/ NextPage
SpecPaging == InitPaging /\ [][NextPaging]_vars

\* StreamScales of two apps while the listener's connection may be lost
InitScalesListenerLost ==
    InitCall("StreamScales", {[BaseRequest EXCEPT !.NameFilters = App12]})
NextScalesListenerLost ==
    \/ NextScales
    \/ ConnectionLost
SpecScalesListenerLost == InitScalesListenerLost /\ [][NextScalesListenerLost]_vars

\* every handler that subscribes
InitHandlers ==
    \/ InitApps
    \/ InitLists
    \/ InitFormations
    \/ InitDeployments
    \/ InitCreateScale
    \/ InitCreateDeployment
NextHandlers ==
    \/ Fabric
    \/ AppChange
    \/ DeploymentCreate
    \/ DeploymentProgress
    \/ StreamAppsList
    \/ StreamAppsRecv
    \/ StreamReleasesList
    \/ StreamReleasesRecv
    \/ StreamScalesList
    \/ StreamScalesRecv
    \/ DebounceIncoming
    \/ DebounceFire
    \/ StreamFormationsPreload
    \/ StreamFormationsRefresh
    \/ StreamFormationsRecv
    \/ StreamDeploymentsList
    \/ StreamDeploymentsRecv
    \/ createScaleInsert
    \/ TimeoutFires
    \/ createScaleRecv
    \/ createScaleTimeout
    \/ CreateDeploymentAdd
    \/ CreateDeploymentRecv
    \/ CreateDeploymentScaled
SpecHandlers == InitHandlers /\ [][NextHandlers]_vars

\* a scroll event: updateScrollPosition(scrollTop), the offset being one the
\* content allows (the viewport does not pass the end of the list)
\* the paddings drift once they are wrong: exploration stops at this distance
MaxPadding == 8

WithinMaxPadding ==
    /\ wl.paddingTop \in (0 - MaxPadding)..MaxPadding
    /\ wl.paddingBottom \in (0 - MaxPadding)..MaxPadding

Scroll ==
    /\ h = "WindowedListState"
    /\ WithinMaxPadding
    /\ \E scrollTop \in 0..MaxScrollTop :
         /\ scrollTop + wl.viewportHeight <= getItemRangeHeight(wl, 0, wl.length - 1)
         /\ wl' = updateScrollPosition(wl, scrollTop)
    /\ UNCHANGED <<fabric, call, senders, dpc, pages, closing, startup, appReleaseIDs,
                   db, scale, pc, locals, io, debounce, hist>>

\* the list calls calculateVisibleIndices()
Recalculate ==
    /\ h = "WindowedListState"
    /\ WithinMaxPadding
    /\ wl' = calculateVisibleIndices(wl)
    /\ UNCHANGED <<fabric, call, senders, dpc, pages, closing, startup, appReleaseIDs,
                   db, scale, pc, locals, io, debounce, hist>>

\* an item was measured: updateHeightAtIndex(index, height)
Measure ==
    /\ h = "WindowedListState"
    /\ WithinMaxPadding
    /\ \E index \in 0..(wl.length - 1), height \in 1..MaxHeight :
         wl' = updateHeightAtIndex(wl, index, height)
    /\ UNCHANGED <<fabric, call, senders, dpc, pages, closing, startup, appReleaseIDs,
                   db, scale, pc, locals, io, debounce, hist>>

InitWindow == InitCall("WindowedListState", {BaseRequest})
NextWindow == Scroll
SpecWindow == InitWindow /\ [][NextWindow]_vars

\* the three public operations in any order
NextWindowOps == Scroll \/ Recalculate \/ Measure
SpecWindowOps == InitWindow /\ [][NextWindowOps]_vars

(***************************************************************************)
(* Properties                                                              *)
(***************************************************************************)
\* the largest event id listed in Phase S (0 when nothing was listed)
SnapMax == IF snap.ids = {} THEN 0 ELSE Max(snap.ids)

\* C1: in StreamScales and StreamReleases, no event received from the
\* subscription with id <= the largest event id listed in Phase S is applied
\* to the in-memory list or emitted as a delta.
C1_NoOverlapAfterSnapshot ==
    /\ \A k \in DOMAIN applied : applied[k] > SnapMax
    /\ \A k \in DOMAIN out : out[k].ev # 0 => out[k].ev > SnapMax

\* an event the snapshot already listed came in on the subscription and was
\* dropped, and a later one was applied
C1_Witness ==
    /\ pc = "loop"
    /\ \E k \in DOMAIN seen : seen[k] <= SnapMax
    /\ applied # <<>>

\* C2: StreamApps in streaming mode discards from the stream every app event
\* that occurred before its snapshot was queried: no app change that the
\* snapshot response already contains (the same app at the version that event
\* produced) is emitted again as a Phase-L delta.
C2_NoSnapshotChangeReemitted ==
    h = "StreamApps" =>
        \A k \in DOMAIN out : out[k].ev # 0 => out[k].ev \notin snap.ids

\* the events of the log that the subscription's filters match
Subscribed(e) ==
    /\ e.ObjectType \in SubTypes
    /\ (SubAppIDs = <<>> \/ e.AppID \in Range(SubAppIDs))
    /\ (SubObjectID = "" \/ e.ObjectID = SubObjectID)

\* the copies of event n: received by the handler, held by a forwarder, or
\* still queued in a subscriber
Copies(n) ==
    Cardinality({k \in DOMAIN seen : seen[k] = n})
    + Cardinality({i \in DOMAIN fwd : fwd[i].ev.id = n})
    + Cardinality({ik \in (DOMAIN subs) \X (1..QueueCap) :
                     /\ ik[2] \in DOMAIN subs[ik[1]].q
                     /\ subs[ik[1]].q[ik[2]].id = n})

\* C3: every event matching the subscription's filters that the listener
\* produces after subscribeEvents returned and before Close has exactly one
\* copy on its way to, or received from, the merged Events channel (as long
\* as no subscriber was closed for being slow).
C3_ExactlyOneCopy ==
    (/\ el.state = "open"
     /\ ~el.closeCalled
     /\ \A i \in DOMAIN subs : ~subs[i].closed)
    => \A n \in DOMAIN log :
         (n > el.since /\ Subscribed(log[n])) => Copies(n) = 1

\* C4: after Close() every underlying subscriber is closed, every forwarder
\* exits and the merged Events channel is eventually closed.
C4_CloseClosesEvents ==
    el.closeCalled ~>
        (/\ \A i \in DOMAIN subs : subs[i].closed
         /\ \A i \in DOMAIN fwd : fwd[i].pc = "exit"
         /\ el.eventsClosed)

\* C5: if an underlying subscriber is closed with a non-nil error, the
\* handler's receive loop exits and the handler returns a non-nil error.
C5_SubscriberErrorReturned ==
    (pc = "loop" /\ \E i \in DOMAIN subs : subs[i].Err # "")
        ~> (pc = "done" /\ ret.code # "OK")

\* C6: once a Send on the outbound stream has failed because the client
\* cancelled, the handler eventually returns, even if no further event
\* arrives.
C6_SendFailureEndsHandler == sendFailed ~> (pc = "done")

\* the events of the inserted scale request that createScale has taken,
\* by state
TookOwn(state) == \E k \in DOMAIN applied : log[applied[k]].State = state

\* C7: when createScale has received the complete event of the request it
\* inserted, it returns successfully and the scale request it returns has
\* state complete.
C7_ReturnsComplete ==
    (h = "createScale" /\ TookOwn("complete"))
        => (pc = "done" /\ ret.code = "OK" /\ ret.val = "complete")

\* C8: when createScale receives the cancelled event of the request it
\* inserted, it fails with status failed-precondition and the message
\* "scale request cancelled", and returns no scale request.
C8_CancelledIsFailedPrecondition ==
    (h = "createScale" /\ TookOwn("cancelled"))
        => (/\ pc = "done"
            /\ ret.err = "scale request cancelled"
            /\ ret.code = "FailedPrecondition"
            /\ ret.val = "")

\* C9: a createScale call that has inserted its request and received neither
\* its complete nor its cancelled event returns, whatever other events
\* arrived, with a deadline-exceeded error.
C9_TimeoutIsDeadlineExceeded ==
    (/\ h = "createScale"
     /\ pc = "done"
     /\ scaleReq.ID # ""
     /\ ~TookOwn("complete")
     /\ ~TookOwn("cancelled"))
        => ret.code = "DeadlineExceeded"

\* every createScale call returns (the part of C9 that the code keeps)
CreateScaleReturns == <>(pc = "done")

\* C10: CreateDeployment invokes createScale only once it has observed the
\* deployment complete and only if the request carried a scaleRequest; it
\* invokes it exactly once, with parent apps/{appID}/releases/{newReleaseID},
\* and createScale has returned before the handler returns.
C10_ScaleOnceOnComplete ==
    h = "CreateDeployment" =>
        /\ ~req.ScaleRequest => scaleCalls = <<>>
        /\ pc \notin {"scale", "done"} => scaleCalls = <<>>
        /\ Len(scaleCalls) <= 1
        /\ \A k \in DOMAIN scaleCalls :
              scaleCalls[k].parent = <<req.Parent, req.Release>>
        /\ pc = "scale" =>
              /\ deployment.Status = "complete"
              /\ Len(scaleCalls) = 1
              /\ ~scaleCalls[1].returned
        /\ pc = "done" =>
              /\ \A k \in DOMAIN scaleCalls : scaleCalls[k].returned
              /\ (req.ScaleRequest /\ ret.code = "OK") => Len(scaleCalls) = 1

\* the deployment completed, createScale was called once and returned, and
\* the handler returned
C10_Witness ==
    /\ h = "CreateDeployment"
    /\ pc = "done"
    /\ req.ScaleRequest
    /\ Len(scaleCalls) = 1
    /\ scaleCalls[1].returned
    /\ deployment.Status = "complete"

\* the handler has handled an event while the deployment row was failed
ObservedFailed ==
    /\ h = "CreateDeployment"
    /\ pc = "done"
    /\ deployment.Status = "failed"

\* C11: in CreateDeployment, when the deployment record observed while
\* handling an event has status failed, the handler returns an error whose
\* message equals that event's error field, and the delta of that event is
\* the last one it emits.
C11_FailedReturnsEventError ==
    /\ ObservedFailed =>
          /\ ret.code # "OK"
          /\ ret.err = ErrorField(log[applied[Len(applied)]])
    /\ h = "CreateDeployment" =>
          \A k \in DOMAIN out :
             out[k].items[1].State = "failed" => k = Len(out)

\* the events of the created deployment, in the order they were published
DeploymentEvents ==
    SelectSeq([n \in DOMAIN log |-> n],
              LAMBDA n : log[n].ObjectType = "deployment"
                         /\ log[n].ObjectID = deployment.ID)

\* C12: once the deployment has reached complete or failed and
\* CreateDeployment has returned, it has emitted exactly one delta for every
\* event published for the deployment since its insertion, in event order.
C12_OneDeltaPerEvent ==
    (/\ h = "CreateDeployment"
     /\ pc = "done"
     /\ deployment.Status \in {"complete", "failed"})
        => applied = DeploymentEvents

\* C13: in StreamScales Phase L a response is sent only when the debounce
\* timer fires after a burst of events: no response follows the snapshot
\* while no event has arrived, and there are never more Phase-L responses
\* than events received (one per burst of at least one event).
C13_DebouncedResponsePerBurst ==
    h = "StreamScales" =>
        /\ seen = <<>> => Len(out) <= 1
        /\ ~cancelled => Len(out) <= 1 + Len(seen)

\* no two elements of the list have the same name, and the elements are in
\* the order of their prepends, the latest first
UniqueNamesLatestFirst(list) ==
    \A i, j \in DOMAIN list :
       i < j => (list[i].name # list[j].name /\ list[i].id > list[j].id)

\* C14: in StreamScales and StreamReleases the in-memory list never holds
\* two elements of the same name; the item prepended last is at index 0 and
\* the others keep their relative order (latest prepend first).  The same
\* holds of every list sent in a response.
C14_PrependedNameOnceAtHead ==
    h \in {"StreamScales", "StreamReleases"} =>
        /\ UniqueNamesLatestFirst(items)
        /\ \A k \in DOMAIN out : UniqueNamesLatestFirst(out[k].items)
        /\ (h = "StreamScales" /\ applied # <<>>) =>
               (items # <<>> /\ items[1].id = applied[Len(applied)])

\* an item was prepended over an older item of the same name, which is gone
C14_Witness ==
    /\ h \in {"StreamScales", "StreamReleases"}
    /\ items # <<>>
    /\ \E n \in snap.kept \cup Range(applied) :
          /\ n < items[1].id
          /\ log[n].ok
          /\ <<log[n].AppID, log[n].ObjectID>> = <<log[items[1].id].AppID,
                                                    log[items[1].id].ObjectID>>
          /\ \A i \in DOMAIN items : items[i].id # n

\* C15: StreamApps, StreamReleases and StreamDeployments called with
\* streamUpdates = streamCreates = false emit exactly one response, which
\* carries the page and pageComplete = true, and return without entering
\* Phase L: no event is turned into a response.
C15_UnaryOneCompletePage ==
    (h \in {"StreamApps", "StreamReleases", "StreamDeployments"} /\ Unary) =>
        /\ pc # "loop"
        /\ seen = <<>> /\ applied = <<>>
        /\ Len(out) <= 1
        /\ \A k \in DOMAIN out : out[k].pageComplete /\ out[k].ev = 0
        /\ (pc = "done" /\ ~cancelled) => (Len(out) = 1 /\ ret.code = "OK")

\* the apps of the store that follow the page token's app and pass the
\* request's filters, in the store's page order
PassingApps(before) ==
    LET rest == SubSeq(appsTable, AppRow(before) + 1, Len(appsTable))
        pass == SelectSeq(rest, AppPasses)
    IN  [k \in DOMAIN pass |-> ConvertApp(pass[k])]

\* C16: a StreamApps snapshot with effective page size n > 0 holds exactly the
\* first n apps, in the store's page order, that pass the filters (all of
\* them if fewer exist), and its next-page token continues with the passing
\* apps that follow the last returned one
C16_SnapshotIsFirstPassingPage ==
    (h = "StreamApps" /\ out # <<>> /\ AppsPageSize > 0) =>
        LET all == PassingApps(req.BeforeApp)
            n == Min({AppsPageSize, Len(all)})
            page == out[1]
        IN  /\ Len(page.items) <= AppsPageSize
            /\ page.items = SubSeq(all, 1, n)
            /\ SubSeq(all, n + 1, Len(all)) =
                  (IF page.npt = "" THEN <<>> ELSE PassingApps(page.npt))

\* C17: StreamReleases asks the store for pageSize+1 rows; exactly when the
\* store returned pageSize+1 rows the snapshot keeps all but the one surplus
\* (oldest) row and the next-page token is the id of the first row of the
\* kept window; otherwise every listed row is kept and the token is empty
C17_SurplusRowIffNextPage ==
    (h = "StreamReleases" /\ pc \notin {"subscribe", "list"}) =>
        /\ pc # "panic"
        /\ ReleasesPageSize > 0 => Cardinality(snap.ids) <= ReleasesPageSize + 1
        /\ IF Cardinality(snap.ids) = ReleasesPageSize + 1
           THEN /\ snap.kept = snap.ids \ {Min(snap.ids)}
                /\ snap.kept # {}
                /\ npt = Max(snap.kept)
           ELSE /\ snap.kept = snap.ids
                /\ npt = 0

\* the store as of its first `at` events: the current release of app a and
\* the latest scale request of (a, r)
ReleaseAsOf(a, at) ==
    LET moves == {n \in 1..at : log[n].ObjectType = "app_release" /\ log[n].AppID = a}
    IN  IF moves = {} THEN InitialRelease(a) ELSE log[Max(moves)].ObjectID

LatestScaleAsOf(a, r, at) ==
    LET rows == {n \in 1..at : /\ log[n].ObjectType = "scale_request"
                                /\ log[n].AppID = a /\ log[n].Rel = r}
    IN  IF rows # {} THEN log[Max(rows)]
        ELSE IF a = InitialScaleRequest.AppID /\ r = InitialScaleRequest.Rel
             THEN InitialScaleRequest
             ELSE NoEvent

\* the handler is through with event n: it has returned, or it received n
\* and finished the refresh that follows it
FormationsHandled(n) ==
    \/ pc = "done"
    \/ n \in Range(seen) /\ ~(pc = "refresh" /\ ctEvent.id = n)

\* response resp shows app a's formation as the store has it when read: named
\* after a's current release and latest scale request, with the state of
\* that scale request
FormationShown(a, resp) ==
    LET cur == ReleaseAsOf(a, resp.asOf)
        latest == LatestScaleAsOf(a, cur, resp.asOf)
    IN  /\ latest # NoEvent
        /\ \E k \in DOMAIN resp.items :
             /\ resp.items[k].name = <<a, cur, latest.ObjectID>>
             /\ resp.items[k].State =
                  (IF latest.State = "pending" THEN "SCALE_PENDING"
                   ELSE IF latest.State = "cancelled" THEN "SCALE_CANCELLED"
                   ELSE "SCALE_COMPLETE")

\* C18: for every scale-request event of a subscribed app's current release
\* that reaches the subscription of StreamFormations, the handler emits a
\* response whose formation for the app is named
\* apps/A/releases/<current release>/scale/<latest scale request> and has the
\* state of that scale request: SCALE_PENDING while it is pending,
\* SCALE_CANCELLED if cancelled, SCALE_COMPLETE otherwise
C18_FormationFollowsScaleRequest ==
    (h = "StreamFormations" /\ el.state = "open" /\ ~cancelled) =>
        \A n \in DOMAIN log :
            ( /\ n > el.since
              /\ log[n].ObjectType = "scale_request"
              /\ log[n].AppID \in Range(ParseAppIDsFromNameFilters(req.NameFilters))
              /\ log[n].Rel = ReleaseAsOf(log[n].AppID, n)
              /\ FormationsHandled(n) )
            => \E k \in DOMAIN out :
                 out[k].ev = n /\ FormationShown(log[n].AppID, out[k])

OpenListeners == {i \in DOMAIN pool : pool[i].state = "open"}

\* C19: under any interleaving of concurrent maybeStartEventListener calls
\* at most one change-feed connection is open, a listener is created only
\* when Config.eventListener is nil or closed at that moment, and a caller
\* that creates none is returned the existing listener, which stays the one
\* Config.eventListener points at until the call returns
C19_OneListenerOpened ==
    /\ Cardinality(OpenListeners) <= 1
    /\ \A i \in DOMAIN pool : pool[i].prev \in {"nil", "closed"}
    /\ \A c \in Callers :
         callers[c].pc = "return" =>
            /\ callers[c].got = Len(pool)
            /\ callers[c].got > 0

\* two first-use calls have returned the same open listener, one of them
\* having created it while the other waited for the mutex
C19_Witness ==
    \E c, d \in Callers :
        /\ callers[c].pc = "done" /\ callers[c].created
        /\ callers[d].pc = "done" /\ ~callers[d].created
        /\ callers[c].got = 1 /\ callers[d].got = 1
        /\ pool = <<[state |-> "open", prev |-> "nil"]>>

ResponsesFor(n) == {k \in DOMAIN out : out[k].ev = n}

C22_ErrWrittenOnceFirstWins ==
    /\ Len(errWrites) <= 1
    /\ el.Err = (IF errWrites = <<>> THEN "" ELSE subs[errWrites[1]].Err)
    /\ errWrites # <<>> =>
          /\ subs[errWrites[1]].Err # ""
          /\ \A j \in 1..(errWrites[1] - 1) : subs[j].Err = ""
    /\ \A c \in Closers :
          closers[c].pc = "done" => el.Err = FirstErr(subs, el.nsubs)

\* two Close calls have finished on a subscription whose two subscribers
\* both hold an error, and the error cell holds the first one's
C22_Witness ==
    /\ \A c \in Closers : closers[c].pc = "done"
    /\ el.nsubs = 2
    /\ subs[1].Err # "" /\ subs[2].Err # ""
    /\ errWrites = <<1>>
    /\ el.Err = subs[1].Err

\* the event received in this step (the handler's loop took one event from
\* the merged channel)
Received == seen' # seen /\ Len(seen') = Len(seen) + 1

\* the ids of the well-formed events received so far
WellFormedSeen == {seen[p] : p \in {q \in DOMAIN seen : log[seen[q]].ok}}

\* a malformed event has been received before
MalformedSeen == \E p \in DOMAIN seen : ~log[seen[p]].ok

\* the value currID has when Phase L starts: the newest listed event, or the
\* request's cursor when nothing was listed
StartCurrID ==
    IF snap.kept # {} THEN Max(snap.kept)
    ELSE IF h = "StreamReleases" THEN req.BeforeID ELSE 0

\* the received event is one the handler emits or applies when it arrives
\* alone: well-formed, newer than the snapshot and than every well-formed
\* event received before it, and passing the request's filters
Processable(e) ==
    /\ e.ok
    /\ e.id > SnapMax
    /\ e.id > StartCurrID
    /\ \A n \in WellFormedSeen : e.id > n
    /\ h = "StreamReleases" => maybeAcceptRelease(e) = "accept"

\* C23: in StreamApps, StreamScales, StreamReleases, StreamDeployments and
\* CreateDeployment an event whose payload does not parse is skipped: the
\* step that receives it emits nothing, leaves the in-memory list alone and
\* does not return, and a well-formed event received after it is still
\* processed (in StreamScales and StreamReleases: applied or emitted).
C23_MalformedEventSkipped ==
    [][(/\ h \in {"StreamApps", "StreamScales", "StreamReleases",
                   "StreamDeployments", "CreateDeployment"}
        /\ Received)
         => LET e == log[seen'[Len(seen')]] IN
            /\ ~e.ok => /\ out' = out
                        /\ items' = items
                        /\ applied' = applied
                        /\ pc' = pc
                        /\ ret' = ret
            /\ (/\ h \in {"StreamScales", "StreamReleases"}
                /\ MalformedSeen
                /\ Processable(e))
                   => applied' = Append(applied, e.id)]_vars

\* the condition under which the claim has an app event emitted
AppEventEmitted(e) ==
    /\ \/ e.Op = "create" /\ req.StreamCreates
       \/ e.Op = "update" /\ req.StreamUpdates
    /\ (req.LabelFilter = "" \/ e.Label = req.LabelFilter)

\* C24: in StreamApps Phase L a (well-formed) app event is emitted as a
\* single-app delta if and only if its operation is create and streamCreates
\* is set, or update and streamUpdates is set, and the app's labels match
\* the label filters; app-deletion and app-release events produce no
\* response and change no handler state.
C24_AppEventEmittedIff ==
    [][(h = "StreamApps" /\ Received)
         => LET e == log[seen'[Len(seen')]] IN
            /\ (e.ObjectType = "app" /\ e.ok) =>
                  IF AppEventEmitted(e)
                  THEN /\ applied' = Append(applied, e.id)
                       /\ ~cancelled =>
                             /\ Len(out') = Len(out) + 1
                             /\ Len(out'[Len(out')].items) = 1
                             /\ out'[Len(out')].items[1].name[1] = e.ObjectID
                             /\ out'[Len(out')].items[1].Label = e.Label
                  ELSE applied' = applied /\ out' = out
            /\ e.ObjectType \in {"app_deletion", "app_release"} =>
                  /\ applied' = applied /\ out' = out
                  /\ UNCHANGED <<locals, pc, ret, sendFailed, subs, el>>]_vars

\* StreamApps with streamUpdates unset and a label filter has received a
\* create it emitted, an update it did not emit and an app-release event
C24_Witness ==
    /\ h = "StreamApps"
    /\ \E p, q, r \in DOMAIN seen :
          /\ log[seen[p]].ObjectType = "app" /\ seen[p] \in Range(applied)
          /\ log[seen[q]].ObjectType = "app" /\ log[seen[q]].ok
          /\ seen[q] \notin Range(applied)
          /\ log[seen[r]].ObjectType \in {"app_deletion", "app_release"}
    /\ Len(out) = 2

\* C25: for fixed length, viewportHeight and item heights, after any
\* sequence of updateScrollPosition calls that starts from a state computed
\* by calculateVisibleIndices, visibleIndexTop, visibleLength, paddingTop
\* and paddingBottom are what calculateVisibleIndices computes from scratch
\* for the same scrollTop.
C25_IncrementalEqualsFromScratch ==
    h = "WindowedListState" => wl = calculateVisibleIndices(wl)

\* C26: in StreamReleases and StreamScales subscribed to two or more app
\* ids, every matching event newer than the snapshot that has been received
\* from the merged channel has been applied or emitted exactly once,
\* whatever the order in which the forwarders delivered the events.
C26_NoEventLostToInterleaving ==
    (/\ h \in {"StreamReleases", "StreamScales"}
     /\ Len(ParseAppIDsFromNameFilters(req.NameFilters)) >= 2)
        => \A p \in DOMAIN seen :
              LET e == log[seen[p]] IN
              (/\ e.ok
               /\ e.id > SnapMax
               /\ e.id > StartCurrID
               /\ h = "StreamReleases" => maybeAcceptRelease(e) = "accept")
                 => Cardinality({k \in DOMAIN applied : applied[k] = e.id}) = 1

\* C27: no event is lost at the seam between snapshot and live tail: once
\* StreamDeployments in streaming mode is in Phase L, every event of the
\* subscribed kind that was published after the snapshot was queried has
\* been received or is on its way to the handler (queued in a subscriber or
\* held by a forwarder), as long as no subscriber was closed for being slow.
C27_NoEventLostAtSeam ==
    (/\ h = "StreamDeployments"
     /\ pc = "loop"
     /\ \A i \in DOMAIN subs : ~subs[i].closed)
        => \A n \in DOMAIN log :
              (n > SnapMax /\ Subscribed(log[n])) => Copies(n) >= 1

\* C28: at most one Send is in progress on the outbound stream of
\* StreamScales at any time: the sendResponse goroutines started by the
\* debounce goroutine do not overlap, even when a Send outlasts the debounce
\* interval.
C28_OneSendAtATime ==
    h = "StreamScales" => sending <= 1

\* a forwarder goroutine that has exited or is about to: its subscriber's
\* channel is closed and it holds no event
ForwarderEnds(i) ==
    \/ fwd[i].pc = "exit"
    \/ fwd[i].pc = "recv" /\ subs[i].closed

\* C29: after StreamScales has returned nothing is sent on its stream any
\* more and none of its goroutines remains running or blocked: the debounce
\* goroutine has ended, no signalling goroutine waits to write to incoming,
\* no timer is armed, no sendResponse goroutine runs, and every forwarder has
\* exited or is about to.
C29_NoGoroutineLeftAfterReturn ==
    (h = "StreamScales" /\ pc = "done") =>
        /\ dpc \notin {"select"}
        /\ incoming = 0 /\ ~timer
        /\ spawned = 0 /\ sending = 0
        /\ \A i \in DOMAIN fwd : ForwarderEnds(i)

\* C30: when subscribeEvents has failed at the Subscribe of the k-th app id,
\* k > 1, every subscriber opened for the earlier app ids is closed and
\* every forwarder started for them has exited or is about to.
C30_NothingLeftAfterFailedSubscribe ==
    (pc = "done" /\ el.state = "failed" /\ Len(subs) >= 1) =>
        \A i \in DOMAIN subs : subs[i].closed /\ ForwarderEnds(i)

\* C31: CreateDeployment returns success for a request that carries a scale
\* request only if its createScale call succeeded: when the scale was
\* cancelled, timed out or could not be inserted, the handler returns a
\* non-nil error.
C31_SuccessOnlyIfScaled ==
    (/\ h = "CreateDeployment"
     /\ req.ScaleRequest
     /\ pc = "done"
     /\ ret.code = "OK")
        => \A k \in DOMAIN scaleCalls :
              scaleCalls[k].returned /\ scaleCalls[k].err = ""

\* the release events the request's name filters select
PagedEvents ==
    {n \in DOMAIN log :
        /\ log[n].ObjectType = "release"
        /\ (SubAppIDs = <<>> \/ log[n].AppID \in Range(SubAppIDs))}

\* C32: paging StreamReleases with the returned nextPageToken visits every
\* matching release event once: the page obtained with a token shares no
\* event with the page that produced the token, and no matching event older
\* than that page and newer than the new one is skipped.
C32_PagesDisjointAndContiguous ==
    (h = "StreamReleases" /\ pages # <<>> /\ pc = "done") =>
        LET P == pages[Len(pages)]
            Q == snap.kept
        IN  /\ P \cap Q = {}
            /\ \A n \in PagedEvents :
                  ~((\A p \in P : n < p) /\ (\A q \in Q : n > q))

\* C33: after any sequence of calculateVisibleIndices, updateScrollPosition
\* and updateHeightAtIndex, 0 <= visibleIndexTop, visibleIndexTop +
\* visibleLength <= length, paddingTop is the summed height of the items
\* above visibleIndexTop and paddingBottom the summed height of the items
\* below the last visible index.
C33_WindowWithinListPaddingsExact ==
    h = "WindowedListState" =>
        /\ 0 <= wl.visibleIndexTop
        /\ wl.visibleIndexTop + wl.visibleLength <= wl.length
        /\ wl.paddingTop = getItemRangeHeight(wl, 0, wl.visibleIndexTop - 1)
        /\ wl.paddingBottom =
              getItemRangeHeight(wl, wl.visibleIndexTop + wl.visibleLength,
                                 wl.length - 1)

====
